---- MODULE Spec2Model ----
(***************************************************************************)
(* A model of the musicbrainz_rust XML data-binding layer: partial dates,  *)
(* closed-vocabulary enums, the XPath reader and the entity decoders.      *)
(*                                                                         *)
(* Strings are modelled as tuples of one-character strings, so that the    *)
(* parsers (integer, date, uuid) work on characters as the code does.      *)
(***************************************************************************)
EXTENDS Integers, Sequences, FiniteSets, TLC

VARIABLES
    dateStr,    \* the &str handed to Date::from_str
    dateRes,    \* its Result<Date, ParseDateError>, or Pending before the call
    dateVal,    \* a Date value the accessors are called on
    acc,        \* accessor name -> value returned, for the accessors called so far
    enumStr,    \* the &str handed to an enum's from_str
    enumOut,    \* the enum asked for and its Result, or NoEnum before the call
    call,       \* the decoder or reader called with its arguments, or NoCall
    res         \* what the call returned, or Pending before the call

dateVars == <<dateStr, dateRes, dateVal, acc>>
enumVars == <<enumStr, enumOut>>
xmlVars == <<call, res>>

vars == <<dateStr, dateRes, dateVal, acc, enumStr, enumOut, call, res>>

\* ------------------------------------------------------------------------
\* Bounds and machine integer widths
\* ------------------------------------------------------------------------

\* Largest number of '-'-separated components of a date input.
MaxComps == 4

\* u16::MAX and u8::MAX, the ranges of Date's year and month/day fields.
U16Max == 65535
U8Max == 255

Pending == [tag |-> "Pending"]
Ok(v) == [tag |-> "Ok", val |-> v]
Err(e) == [tag |-> "Err", err |-> e]
IsOk(r) == r.tag = "Ok"
IsErr(r) == r.tag = "Err"

\* The element of a one-element set.  The({ e : v \in {x} }) is e with v bound
\* to the value of x, as "let v = x;" binds it in the code.
The(S) == CHOOSE x \in S : TRUE

\* ------------------------------------------------------------------------
\* Strings and integer parsing
\* ------------------------------------------------------------------------

Digits == {"0", "1", "2", "3", "4", "5", "6", "7", "8", "9"}

DigitVal(c) ==
    CASE c = "0" -> 0 [] c = "1" -> 1 [] c = "2" -> 2 [] c = "3" -> 3
      [] c = "4" -> 4 [] c = "5" -> 5 [] c = "6" -> 6 [] c = "7" -> 7
      [] c = "8" -> 8 [] c = "9" -> 9

\* The digit loop of core::num::from_str_radix for an unsigned type with
\* maximum max: checked_mul(10) then checked_add(digit), left to right.
RECURSIVE ParseDigits(_, _, _)
ParseDigits(ds, result, max) ==
    IF ds = <<>> THEN Ok(result)
    ELSE IF Head(ds) \notin Digits THEN Err("InvalidDigit")
    ELSE IF result * 10 > max THEN Err("Overflow")
    ELSE IF result * 10 + DigitVal(Head(ds)) > max THEN Err("Overflow")
    ELSE ParseDigits(Tail(ds), result * 10 + DigitVal(Head(ds)), max)

\* Mutant: the leading '+' is not accepted.
ParseUInt_nosign(src, max) ==
    IF src = <<>> THEN Err("Empty")
    ELSE ParseDigits(src, 0, max)

\* str::parse::<uN>(): empty input is an error, one leading '+' is allowed,
\* '-' is not a sign for an unsigned type.
ParseUInt(src, max) ==
    IF src = <<>> THEN Err("Empty")
    ELSE LET digits == IF Head(src) = "+" THEN Tail(src) ELSE src
         IN  IF digits = <<>> THEN Err("Empty")
             ELSE ParseDigits(digits, 0, max)

\* str::split("-"): the pieces between the separators; a string without a
\* separator (the empty string included) is one piece.
RECURSIVE SplitFrom(_, _, _)
SplitFrom(s, i, cur) ==
    IF i > Len(s) THEN <<cur>>
    ELSE IF s[i] = "-" THEN <<cur>> \o SplitFrom(s, i + 1, <<>>)
    ELSE SplitFrom(s, i + 1, Append(cur, s[i]))

\* Mutant: pieces after the third are dropped.
Split_trunc(s) ==
    LET ps == SplitFrom(s, 1, <<>>)
    IN  IF Len(ps) > 3 THEN SubSeq(ps, 1, 3) ELSE ps

Split(s) == SplitFrom(s, 1, <<>>)

\* ------------------------------------------------------------------------
\* Date (entities/date.rs)
\* ------------------------------------------------------------------------

DateYear(y) == [variant |-> "Year", year |-> y]
DateMonth(y, m) == [variant |-> "Month", year |-> y, month |-> m]
DateDay(y, m, d) == [variant |-> "Day", year |-> y, month |-> m, day |-> d]

WrongNumberOfComponents(n) == [kind |-> "WrongNumberOfComponents", n |-> n]
ComponentInvalid(e) == [kind |-> "ComponentInvalid", e |-> e]

\* Mutant: the month is checked before the year.
Date_from_str_order(s) ==
    LET ps == Split(s)
        y == ParseUInt(ps[1], U16Max)
    IN  IF Len(ps) = 1 THEN
            IF IsErr(y) THEN Err(ComponentInvalid(y.err))
            ELSE Ok(DateYear(y.val))
        ELSE IF Len(ps) = 2 THEN
            LET m == ParseUInt(ps[2], U8Max)
            IN  IF IsErr(m) THEN Err(ComponentInvalid(m.err))
                ELSE IF IsErr(y) THEN Err(ComponentInvalid(y.err))
                ELSE Ok(DateMonth(y.val, m.val))
        ELSE IF Len(ps) = 3 THEN
            LET m == ParseUInt(ps[2], U8Max)
                d == ParseUInt(ps[3], U8Max)
            IN  IF IsErr(m) THEN Err(ComponentInvalid(m.err))
                ELSE IF IsErr(y) THEN Err(ComponentInvalid(y.err))
                ELSE IF IsErr(d) THEN Err(ComponentInvalid(d.err))
                ELSE Ok(DateDay(y.val, m.val, d.val))
        ELSE Err(WrongNumberOfComponents(Len(ps)))

\* impl FromStr for Date.  `?` returns the error of the first field whose
\* parse fails; fields are evaluated in the order year, month, day.
Date_from_str(s) ==
    LET ps == Split(s)
        y == ParseUInt(ps[1], U16Max)
    IN  IF Len(ps) = 1 THEN
            IF IsErr(y) THEN Err(ComponentInvalid(y.err))
            ELSE Ok(DateYear(y.val))
        ELSE IF Len(ps) = 2 THEN
            LET m == ParseUInt(ps[2], U8Max)
            IN  IF IsErr(y) THEN Err(ComponentInvalid(y.err))
                ELSE IF IsErr(m) THEN Err(ComponentInvalid(m.err))
                ELSE Ok(DateMonth(y.val, m.val))
        ELSE IF Len(ps) = 3 THEN
            LET m == ParseUInt(ps[2], U8Max)
                d == ParseUInt(ps[3], U8Max)
            IN  IF IsErr(y) THEN Err(ComponentInvalid(y.err))
                ELSE IF IsErr(m) THEN Err(ComponentInvalid(m.err))
                ELSE IF IsErr(d) THEN Err(ComponentInvalid(d.err))
                ELSE Ok(DateDay(y.val, m.val, d.val))
        ELSE Err(WrongNumberOfComponents(Len(ps)))

Date_year(date) == date.year

Date_month(date) ==
    CASE date.variant = "Year" -> 0
      [] date.variant = "Month" -> date.month
      [] date.variant = "Day" -> date.month

\* Mutant: the Month arm returns the month.
Date_day_month(date) ==
    CASE date.variant = "Year" -> 0
      [] date.variant = "Month" -> date.month
      [] date.variant = "Day" -> date.day

Date_day(date) ==
    CASE date.variant = "Year" -> 0
      [] date.variant = "Month" -> 0
      [] date.variant = "Day" -> date.day

\* ------------------------------------------------------------------------
\* Closed-vocabulary enums
\* ------------------------------------------------------------------------

Variant(enum, v) == [enum |-> enum, variant |-> v]

\* ParseErrorKind::InvalidData(msg): msg names the type and quotes the text.
InvalidData(what, text) == [kind |-> "InvalidData", what |-> what, text |-> text]

\* impl FromStr for AreaType
AreaType_from_str(s) ==
    CASE s = <<"C", "o", "u", "n", "t", "r", "y">> -> Ok(Variant("AreaType", "Country"))  \* "Country"
      [] s = <<"S", "u", "b", "d", "i", "v", "i", "s", "i", "o", "n">> -> Ok(Variant("AreaType", "Subdivision"))  \* "Subdivision"
      [] s = <<"C", "o", "u", "n", "t", "y">> -> Ok(Variant("AreaType", "County"))  \* "County"
      [] s = <<"M", "u", "n", "c", "i", "p", "a", "l", "i", "t", "y">> -> Ok(Variant("AreaType", "Muncipality"))  \* "Muncipality"
      [] s = <<"C", "i", "t", "y">> -> Ok(Variant("AreaType", "City"))  \* "City"
      [] s = <<"D", "i", "s", "t", "r", "i", "c", "t">> -> Ok(Variant("AreaType", "District"))  \* "District"
      [] s = <<"I", "s", "l", "a", "n", "d">> -> Ok(Variant("AreaType", "Island"))  \* "Island"
      [] OTHER -> Err(InvalidData("AreaType", s))

\* impl FromStr for ArtistType
ArtistType_from_str(s) ==
    CASE s = <<"P", "e", "r", "s", "o", "n">> -> Ok(Variant("ArtistType", "Person"))  \* "Person"
      [] s = <<"G", "r", "o", "u", "p">> -> Ok(Variant("ArtistType", "Group"))  \* "Group"
      [] s = <<"O", "r", "c", "h", "e", "s", "t", "r", "a">> -> Ok(Variant("ArtistType", "Orchestra"))  \* "Orchestra"
      [] s = <<"C", "h", "o", "i", "r">> -> Ok(Variant("ArtistType", "Choir"))  \* "Choir"
      [] s = <<"C", "h", "a", "r", "a", "c", "t", "e", "r">> -> Ok(Variant("ArtistType", "Character"))  \* "Character"
      [] s = <<"O", "t", "h", "e", "r">> -> Ok(Variant("ArtistType", "Other"))  \* "Other"
      [] OTHER -> Err(InvalidData("ArtistType", s))

\* Mutant: the literals are the variant identifiers.
LabelType_from_str_ident(s) ==
    CASE s = <<"I", "m", "p", "r", "i", "n", "t">> -> Ok(Variant("LabelType", "Imprint"))  \* "Imprint"
      [] s = <<"P", "r", "o", "d", "u", "c", "t", "i", "o", "n", "O", "r", "i", "g", "i", "n", "a", "l">> -> Ok(Variant("LabelType", "ProductionOriginal"))  \* "ProductionOriginal"
      [] s = <<"P", "r", "o", "d", "u", "c", "t", "i", "o", "n", "B", "o", "o", "t", "l", "e", "g">> -> Ok(Variant("LabelType", "ProductionBootleg"))  \* "ProductionBootleg"
      [] s = <<"P", "r", "o", "d", "u", "c", "t", "i", "o", "n", "R", "e", "i", "s", "s", "u", "e">> -> Ok(Variant("LabelType", "ProductionReissue"))  \* "ProductionReissue"
      [] s = <<"D", "i", "s", "t", "r", "i", "b", "u", "t", "i", "o", "n">> -> Ok(Variant("LabelType", "Distribution"))  \* "Distribution"
      [] s = <<"H", "o", "l", "d", "i", "n", "g">> -> Ok(Variant("LabelType", "Holding"))  \* "Holding"
      [] s = <<"R", "i", "g", "h", "t", "s", "S", "o", "c", "i", "e", "t", "y">> -> Ok(Variant("LabelType", "RightsSociety"))  \* "RightsSociety"
      [] OTHER -> Err(InvalidData("LabelType", s))

\* impl FromStr for LabelType
LabelType_from_str(s) ==
    CASE s = <<"I", "m", "p", "r", "i", "n", "t">> -> Ok(Variant("LabelType", "Imprint"))  \* "Imprint"
      [] s = <<"O", "r", "i", "g", "i", "n", "a", "l", " ", "P", "r", "o", "d", "u", "c", "t", "i", "o", "n">> -> Ok(Variant("LabelType", "ProductionOriginal"))  \* "Original Production"
      [] s = <<"B", "o", "o", "t", "l", "e", "g", " ", "P", "r", "o", "d", "u", "c", "t", "i", "o", "n">> -> Ok(Variant("LabelType", "ProductionBootleg"))  \* "Bootleg Production"
      [] s = <<"R", "e", "i", "s", "s", "u", "e", " ", "P", "r", "o", "d", "u", "c", "t", "i", "o", "n">> -> Ok(Variant("LabelType", "ProductionReissue"))  \* "Reissue Production"
      [] s = <<"D", "i", "s", "t", "r", "i", "b", "u", "t", "i", "o", "n">> -> Ok(Variant("LabelType", "Distribution"))  \* "Distribution"
      [] s = <<"H", "o", "l", "d", "i", "n", "g">> -> Ok(Variant("LabelType", "Holding"))  \* "Holding"
      [] s = <<"R", "i", "g", "h", "t", "s", "S", "o", "c", "i", "e", "t", "y">> -> Ok(Variant("LabelType", "RightsSociety"))  \* "RightsSociety"
      [] OTHER -> Err(InvalidData("LabelType", s))

\* impl FromStr for ReleaseStatus
ReleaseStatus_from_str(s) ==
    CASE s = <<"O", "f", "f", "i", "c", "i", "a", "l">> -> Ok(Variant("ReleaseStatus", "Official"))  \* "Official"
      [] s = <<"P", "r", "o", "m", "o", "t", "i", "o", "n", "a", "l">> -> Ok(Variant("ReleaseStatus", "Promotional"))  \* "Promotional"
      [] s = <<"B", "o", "o", "t", "l", "e", "g">> -> Ok(Variant("ReleaseStatus", "Bootleg"))  \* "Bootleg"
      [] s = <<"P", "s", "e", "u", "d", "o", "R", "e", "l", "e", "a", "s", "e">> -> Ok(Variant("ReleaseStatus", "PseudoRelease"))  \* "PseudoRelease"
      [] OTHER -> Err(InvalidData("ReleaseStatus", s))

\* impl FromStr for ReleaseGroupPrimaryType
ReleaseGroupPrimaryType_from_str(s) ==
    CASE s = <<"A", "l", "b", "u", "m">> -> Ok(Variant("ReleaseGroupPrimaryType", "Album"))  \* "Album"
      [] s = <<"S", "i", "n", "g", "l", "e">> -> Ok(Variant("ReleaseGroupPrimaryType", "Single"))  \* "Single"
      [] s = <<"E", "P">> -> Ok(Variant("ReleaseGroupPrimaryType", "EP"))  \* "EP"
      [] s = <<"B", "r", "o", "a", "d", "c", "a", "s", "t">> -> Ok(Variant("ReleaseGroupPrimaryType", "Broadcast"))  \* "Broadcast"
      [] s = <<"O", "t", "h", "e", "r">> -> Ok(Variant("ReleaseGroupPrimaryType", "Other"))  \* "Other"
      [] OTHER -> Err(InvalidData("ReleaseGroupPrimaryType", s))

\* impl FromStr for ReleaseGroupSecondaryType
ReleaseGroupSecondaryType_from_str(s) ==
    CASE s = <<"C", "o", "m", "p", "i", "l", "a", "t", "i", "o", "n">> -> Ok(Variant("ReleaseGroupSecondaryType", "Compilation"))  \* "Compilation"
      [] s = <<"S", "o", "u", "n", "d", "t", "r", "a", "c", "k">> -> Ok(Variant("ReleaseGroupSecondaryType", "Soundtrack"))  \* "Soundtrack"
      [] s = <<"S", "p", "o", "k", "e", "n", "w", "o", "r", "d">> -> Ok(Variant("ReleaseGroupSecondaryType", "Spokenword"))  \* "Spokenword"
      [] s = <<"I", "n", "t", "e", "r", "v", "i", "e", "w">> -> Ok(Variant("ReleaseGroupSecondaryType", "Interview"))  \* "Interview"
      [] s = <<"A", "u", "d", "i", "o", "b", "o", "o", "k">> -> Ok(Variant("ReleaseGroupSecondaryType", "Audiobook"))  \* "Audiobook"
      [] s = <<"L", "i", "v", "e">> -> Ok(Variant("ReleaseGroupSecondaryType", "Live"))  \* "Live"
      [] s = <<"R", "e", "m", "i", "x">> -> Ok(Variant("ReleaseGroupSecondaryType", "Remix"))  \* "Remix"
      [] s = <<"D", "J", "-", "m", "i", "x">> -> Ok(Variant("ReleaseGroupSecondaryType", "DjMix"))  \* "DJ-mix"
      [] s = <<"M", "i", "x", "t", "a", "p", "e", "/", "S", "t", "r", "e", "e", "t">> -> Ok(Variant("ReleaseGroupSecondaryType", "MixtapeStreet"))  \* "Mixtape/Street"
      [] OTHER -> Err(InvalidData("ReleaseGroupSecondaryType", s))

\* The from_str of the named enum.
Enum_from_str(enum, s) ==
    CASE enum = "AreaType" -> AreaType_from_str(s)
      [] enum = "ArtistType" -> ArtistType_from_str(s)
      [] enum = "LabelType" -> LabelType_from_str(s)
      [] enum = "ReleaseStatus" -> ReleaseStatus_from_str(s)
      [] enum = "ReleaseGroupPrimaryType" -> ReleaseGroupPrimaryType_from_str(s)
      [] enum = "ReleaseGroupSecondaryType" -> ReleaseGroupSecondaryType_from_str(s)

\* ------------------------------------------------------------------------
\* 64-bit integers and uuids
\* ------------------------------------------------------------------------

\* u64::MAX, as decimal digits: numbers of this width are kept as canonical
\* digit strings (no leading zeros).
U64MaxDigits ==
    <<"1", "8", "4", "4", "6", "7", "4", "4", "0", "7",
      "3", "7", "0", "9", "5", "5", "1", "6", "1", "5">>

RECURSIVE StripZeros(_)
StripZeros(d) ==
    IF Len(d) > 1 /\ Head(d) = "0" THEN StripZeros(Tail(d)) ELSE d

RECURSIVE DigitsLeq(_, _)
DigitsLeq(a, b) ==
    IF a = <<>> THEN TRUE
    ELSE IF Head(a) = Head(b) THEN DigitsLeq(Tail(a), Tail(b))
    ELSE DigitVal(Head(a)) < DigitVal(Head(b))

\* a <= b for canonical digit strings.
DecLeq(a, b) == Len(a) < Len(b) \/ (Len(a) = Len(b) /\ DigitsLeq(a, b))

\* str::parse::<u64>(): as ParseUInt; the digit loop stops at the first
\* digit that overflows or the first character that is not a digit.
ParseU64(src) ==
    IF src = <<>> THEN Err("Empty")
    ELSE LET digits == IF Head(src) = "+" THEN Tail(src) ELSE src
             bad == { i \in 1..Len(digits) : digits[i] \notin Digits }
             k == IF bad = {} THEN Len(digits) + 1
                  ELSE CHOOSE i \in bad : \A j \in bad : i <= j
             prefix == SubSeq(digits, 1, k - 1)
         IN  IF digits = <<>> THEN Err("Empty")
             ELSE IF prefix # <<>> /\ ~DecLeq(StripZeros(prefix), U64MaxDigits)
                  THEN Err("Overflow")
             ELSE IF k <= Len(digits) THEN Err("InvalidDigit")
             ELSE Ok(StripZeros(prefix))

\* Duration::from_millis
Duration_from_millis(ms) == [millis |-> ms]

HexDigits ==
    Digits \cup {"a", "b", "c", "d", "e", "f"} \cup {"A", "B", "C", "D", "E", "F"}

LowerHex(c) ==
    CASE c = "A" -> "a" [] c = "B" -> "b" [] c = "C" -> "c"
      [] c = "D" -> "d" [] c = "E" -> "e" [] c = "F" -> "f"
      [] OTHER -> c

\* Positions of the hyphens in the hyphenated form of a uuid.
UuidHyphens == {9, 14, 19, 24}

\* uuid::ParseError: the length is neither 32 nor 36, or (all other
\* variants) a character or a group is wrong.
InvalidLength(n) == [variant |-> "InvalidLength", len |-> n]
InvalidUuid == [variant |-> "Invalid"]

\* Uuid::parse_str: 32 hex digits, plain or in groups of 8-4-4-4-12; the
\* value is the digits, whatever their case.
Uuid_parse_str(s) ==
    The({ IF /\ Len(hex) = 32
             /\ \A i \in 1..32 : hex[i] \in HexDigits
             /\ \/ Len(s) = 32
                \/ Len(s) = 36 /\ \A i \in 1..36 : (s[i] = "-") <=> (i \in UuidHyphens)
          THEN Ok([i \in 1..32 |-> LowerHex(hex[i])])
          ELSE IF Len(s) \notin {32, 36}
               THEN Err([kind |-> "UuidParseError", e |-> InvalidLength(Len(s))])
          ELSE Err([kind |-> "UuidParseError", e |-> InvalidUuid]) :
          hex \in {SelectSeq(s, LAMBDA c : c # "-")} })

\* ------------------------------------------------------------------------
\* Resources (impl Resource for the entities)
\* ------------------------------------------------------------------------

\* Uuid::hyphenated, and Display for Uuid: the digits in groups of
\* 8-4-4-4-12.
hyphenated(mbid) ==
    SubSeq(mbid, 1, 8) \o <<"-">> \o SubSeq(mbid, 9, 12) \o <<"-">> \o SubSeq(mbid, 13, 16)
    \o <<"-">> \o SubSeq(mbid, 17, 20) \o <<"-">> \o SubSeq(mbid, 21, 32)

\* format!("https://musicbrainz.org/ws/2/area/{}", mbid)
Area_get_url(mbid) ==
    <<"h", "t", "t", "p", "s", ":", "/", "/", "m", "u", "s", "i", "c", "b", "r", "a", "i",
          "n", "z", ".", "o", "r", "g", "/", "w", "s", "/", "2", "/", "a", "r", "e", "a", "/">>
    \o mbid

\* format!("https://musicbrainz.org/ws/2/artist/{}?inc=aliases", mbid)
Artist_get_url(mbid) ==
    <<"h", "t", "t", "p", "s", ":", "/", "/", "m", "u", "s", "i", "c", "b", "r", "a", "i",
          "n", "z", ".", "o", "r", "g", "/", "w", "s", "/", "2", "/", "a", "r", "t", "i", "s",
          "t", "/">>
    \o hyphenated(mbid)
    \o <<"?", "i", "n", "c", "=", "a", "l", "i", "a", "s", "e", "s">>

\* format!("https://musicbrainz.org/ws/2/label/{}?inc=aliases", mbid)
Label_get_url(mbid) ==
    <<"h", "t", "t", "p", "s", ":", "/", "/", "m", "u", "s", "i", "c", "b", "r", "a", "i",
          "n", "z", ".", "o", "r", "g", "/", "w", "s", "/", "2", "/", "l", "a", "b", "e", "l",
          "/">>
    \o mbid
    \o <<"?", "i", "n", "c", "=", "a", "l", "i", "a", "s", "e", "s">>

\* Mutant: the inclusions are "artists+" alone.
Recording_get_url_artists(mbid) ==
    <<"h", "t", "t", "p", "s", ":", "/", "/", "m", "u", "s", "i", "c", "b", "r", "a", "i",
          "n", "z", ".", "o", "r", "g", "/", "w", "s", "/", "2", "/", "r", "e", "c", "o", "r",
          "d", "i", "n", "g", "/">>
    \o mbid
    \o <<"?", "i", "n", "c", "=", "a", "r", "t", "i", "s", "t", "s", "+">>

\* format!("https://musicbrainz.org/ws/2/recording/{}?inc=artists+annotation+isrcs", mbid)
Recording_get_url(mbid) ==
    <<"h", "t", "t", "p", "s", ":", "/", "/", "m", "u", "s", "i", "c", "b", "r", "a", "i",
          "n", "z", ".", "o", "r", "g", "/", "w", "s", "/", "2", "/", "r", "e", "c", "o", "r",
          "d", "i", "n", "g", "/">>
    \o mbid
    \o <<"?", "i", "n", "c", "=", "a", "r", "t", "i", "s", "t", "s", "+", "a", "n", "n", "o",
          "t", "a", "t", "i", "o", "n", "+", "i", "s", "r", "c", "s">>

\* format!("https://musicbrainz.org/ws/2/release/{}?inc=aliases+artists+labels+recordings", mbid)
Release_get_url(mbid) ==
    <<"h", "t", "t", "p", "s", ":", "/", "/", "m", "u", "s", "i", "c", "b", "r", "a", "i",
          "n", "z", ".", "o", "r", "g", "/", "w", "s", "/", "2", "/", "r", "e", "l", "e", "a",
          "s", "e", "/">>
    \o mbid
    \o <<"?", "i", "n", "c", "=", "a", "l", "i", "a", "s", "e", "s", "+", "a", "r", "t", "i",
          "s", "t", "s", "+", "l", "a", "b", "e", "l", "s", "+", "r", "e", "c", "o", "r", "d",
          "i", "n", "g", "s">>

\* format!("https://musicbrainz.org/ws/2/release-group/{}?inc=annotation+artists+releases", mbid.hyphenated())
ReleaseGroup_get_url(mbid) ==
    <<"h", "t", "t", "p", "s", ":", "/", "/", "m", "u", "s", "i", "c", "b", "r", "a", "i",
          "n", "z", ".", "o", "r", "g", "/", "w", "s", "/", "2", "/", "r", "e", "l", "e", "a",
          "s", "e", "-", "g", "r", "o", "u", "p", "/">>
    \o hyphenated(mbid)
    \o <<"?", "i", "n", "c", "=", "a", "n", "n", "o", "t", "a", "t", "i", "o", "n", "+", "a",
          "r", "t", "i", "s", "t", "s", "+", "r", "e", "l", "e", "a", "s", "e", "s">>

\* Res::get_url(mbid) of the client.  The implementations that take the mbid
\* as a &str are given its hyphenated text.
get_url(Res, mbid) ==
    CASE Res = "Area" -> Area_get_url(hyphenated(mbid))
      [] Res = "Artist" -> Artist_get_url(mbid)
      [] Res = "Label" -> Label_get_url(hyphenated(mbid))
      [] Res = "Recording" -> Recording_get_url(hyphenated(mbid))
      [] Res = "Release" -> Release_get_url(hyphenated(mbid))
      [] Res = "ReleaseGroup" -> ReleaseGroup_get_url(mbid)

\* ------------------------------------------------------------------------
\* Documents (sxd_document) and XPath evaluation (sxd_xpath)
\* ------------------------------------------------------------------------

\* An element: its name, its attributes (attribute name -> string), its text
\* (<<>> for no text node) and its child elements in document order.
Elem(name, attrs, text, kids) ==
    [name |-> name, attrs |-> attrs, text |-> text, kids |-> kids]

\* The root of a document with the given top-level element.
Document(top) == Elem("#document", <<>>, <<>>, <<top>>)

\* A node of a document: the element at a path of child indices from the
\* root, one of its attributes or its text node.
ElemRef(p) == [path |-> p, part |-> "elem", attr |-> ""]
AttrRef(p, a) == [path |-> p, part |-> "attr", attr |-> a]
TextRef(p) == [path |-> p, part |-> "text", attr |-> ""]

RECURSIVE NodeAt(_, _)
NodeAt(n, p) == IF p = <<>> THEN n ELSE NodeAt(n.kids[Head(p)], Tail(p))

\* The paths of the element at p and of all elements below it.
RECURSIVE DescPaths(_, _)
DescPaths(n, p) ==
    {p} \cup UNION { DescPaths(n.kids[i], Append(p, i)) : i \in 1..Len(n.kids) }

\* Steps of a location path.
Self == [axis |-> "self", name |-> ""]
Dos == [axis |-> "descendant-or-self", name |-> ""]
Child(name) == [axis |-> "child", name |-> name]
Attr(name) == [axis |-> "attribute", name |-> name]
Text == [axis |-> "text", name |-> ""]

\* The nodes one step leads to from node r.
Step(doc, r, st) ==
    LET n == NodeAt(doc, r.path)
    IN  CASE st.axis = "self" -> {r}
          [] st.axis = "descendant-or-self" ->
                IF r.part = "elem" THEN { ElemRef(q) : q \in DescPaths(n, r.path) }
                ELSE {r}
          [] st.axis = "child" ->
                IF r.part = "elem"
                THEN { ElemRef(Append(r.path, i)) :
                          i \in { j \in 1..Len(n.kids) : n.kids[j].name = st.name } }
                ELSE {}
          [] st.axis = "attribute" ->
                IF r.part = "elem" /\ st.name \in DOMAIN n.attrs
                THEN {AttrRef(r.path, st.name)} ELSE {}
          [] st.axis = "text" ->
                IF r.part = "elem" /\ n.text # <<>> THEN {TextRef(r.path)} ELSE {}

RECURSIVE EvalSteps(_, _, _)
EvalSteps(doc, refs, steps) ==
    IF steps = <<>> THEN refs
    ELSE EvalSteps(doc, UNION { Step(doc, r, Head(steps)) : r \in refs }, Tail(steps))

\* Document order: an element before its attributes, its text and its
\* children; siblings by position.
RECURSIVE PathLess(_, _)
PathLess(p, q) ==
    IF p = <<>> THEN q # <<>>
    ELSE IF q = <<>> THEN FALSE
    ELSE IF Head(p) = Head(q) THEN PathLess(Tail(p), Tail(q))
    ELSE Head(p) < Head(q)

PartRank(part) == CASE part = "elem" -> 0 [] part = "attr" -> 1 [] part = "text" -> 2

Before(a, b) ==
    IF a.path = b.path THEN PartRank(a.part) < PartRank(b.part)
    ELSE PathLess(a.path, b.path)

\* Nodeset::document_order
document_order(nodes) ==
    The({ [i \in 1..Cardinality(s) |->
              CHOOSE r \in s : Cardinality({ q \in s : Before(q, r) }) = i - 1] :
          s \in {nodes} })

\* Nodeset::iter: the nodes in the order of the set's hash table, which is
\* any order.
Orders(nodes) ==
    UNION { { o \in [1..Cardinality(s) -> s] :
                \A i, j \in 1..Cardinality(s) : o[i] = o[j] => i = j } :
            s \in {nodes} }

\* The text of an element: the text nodes below it, concatenated.
RECURSIVE TextOf(_)
RECURSIVE TextOfKids(_, _)
TextOf(n) == n.text \o TextOfKids(n, 1)
TextOfKids(n, i) ==
    IF i > Len(n.kids) THEN <<>> ELSE TextOf(n.kids[i]) \o TextOfKids(n, i + 1)

\* Node::string_value
string_value(doc, r) ==
    LET n == NodeAt(doc, r.path)
    IN  CASE r.part = "attr" -> n.attrs[r.attr]
          [] r.part = "text" -> n.text
          [] r.part = "elem" -> TextOf(n)

\* ------------------------------------------------------------------------
\* XPath values and expressions
\* ------------------------------------------------------------------------

Nodeset(nodes) == [type |-> "Nodeset", nodes |-> nodes]
Number(n) == [type |-> "Number", n |-> n]
String(s) == [type |-> "String", s |-> s]

DigitChar(i) == CHOOSE c \in Digits : DigitVal(c) = i

RECURSIVE NumToStr(_)
NumToStr(n) ==
    IF n < 10 THEN <<DigitChar(n)>>
    ELSE Append(NumToStr(n \div 10), DigitChar(n % 10))

\* Value::string: of a node-set, the string value of its first node in
\* document order, and the empty string if it has no node.
Value_string(doc, v) ==
    CASE v.type = "Nodeset" ->
            IF v.nodes = {} THEN <<>>
            ELSE The({ string_value(doc, r) : r \in {document_order(v.nodes)[1]} })
      [] v.type = "Number" -> NumToStr(v.n)
      [] v.type = "String" -> v.s

\* Expressions: a location path, count(path), string(path), an expression
\* that does not parse, and the expression that builds to no XPath.
Path(steps) == [fn |-> "path", steps |-> steps]
CountOf(steps) == [fn |-> "count", steps |-> steps]
StringOf(steps) == [fn |-> "string", steps |-> steps]
Malformed == [fn |-> "malformed", steps |-> <<>>]
Blank == [fn |-> "blank", steps |-> <<>>]

\* ".//mb:a/mb:b<tail>"
Desc(names, tail) ==
    Path(<<Self, Dos>> \o [i \in 1..Len(names) |-> Child(names[i])] \o tail)

\* "."
Dot == Path(<<Self>>)

InternalError(msg) == [kind |-> "InternalError", msg |-> msg]

\* ------------------------------------------------------------------------
\* Readers (entities/xpath_reader.rs)
\* ------------------------------------------------------------------------

\* XPathStrReader: evaluates against the root of its document.
XPathStrReader(doc) == [doc |-> doc, node |-> ElemRef(<<>>)]

\* sxd_document::parser::parse of a text: the document the text is of, or
\* the offset and the errors of the parser when it is not well-formed.
sxd_parse(xml) == IF xml.wf THEN Ok(xml.doc) ELSE Err(<<xml.offset, xml.errors>>)

\* impl From<(usize, Vec<parser::Error>)> for ParseError: the first error.
\* A program abort (a Rust panic): nothing is returned to the caller.
Panic == [tag |-> "Panic"]

\* impl From<(usize, Vec<parser::Error>)> for ParseError: err.1[0] indexes the
\* error list, which aborts when the list holds no element.
ParseError_from(err) ==
    IF Len(err[2]) = 0 THEN Panic
    ELSE Err([kind |-> "XmlParserError", e |-> err[2][1]])

FromXmlParserErrors(r) ==
    The({ IF IsErr(x) THEN ParseError_from(x.err) ELSE x :
          x \in {r} })

\* Mutant: a text that is not well-formed is read as an empty document.
XPathStrReader_new_lenient(xml) ==
    The({ IF IsErr(package) THEN Ok(XPathStrReader(Elem("#document", <<>>, <<>>, <<>>)))
          ELSE Ok(XPathStrReader(package.val)) :
          package \in {FromXmlParserErrors(sxd_parse(xml))} })

\* XPathStrReader::new: package: sxd_parse(xml)?
XPathStrReader_new(xml) ==
    The({ IF IsErr(package) THEN package ELSE Ok(XPathStrReader(package.val)) :
          package \in {FromXmlParserErrors(sxd_parse(xml))} })

\* XPathNodeReader: evaluates against a node of the document.
XPathNodeReader_document(doc, node) == [doc |-> doc, node |-> ElemRef(<<>>)]

XPathNodeReader(doc, node) == [doc |-> doc, node |-> node]

build_xpath_invalid_data(expr) ==
    CASE expr.fn = "malformed" -> Err(InvalidData("xpath", <<>>))
      [] expr.fn = "blank" -> Err(InvalidData("xpath", <<>>))
      [] OTHER -> Ok(expr)

build_xpath(expr) ==
    CASE expr.fn = "malformed" -> Err([kind |-> "XpathParserError"])
      [] expr.fn = "blank" -> Err(InternalError("XPath instance was None"))
      [] OTHER -> Ok(expr)

evaluate(reader, xpath_expr) ==
    LET xpath == build_xpath(xpath_expr)
        nodes == EvalSteps(reader.doc, {reader.node}, xpath_expr.steps)
    IN  IF IsErr(xpath) THEN xpath
        ELSE CASE xpath_expr.fn = "path" -> Ok(Nodeset(nodes))
               [] xpath_expr.fn = "count" -> Ok(Number(Cardinality(nodes)))
               [] xpath_expr.fn = "string" ->
                      Ok(String(Value_string(reader.doc, Nodeset(nodes))))

None == [tag |-> "None"]
Some(v) == [tag |-> "Some", val |-> v]

\* Mutant: the string is wrapped whether empty or not.
non_empty_string_always(s) == Some(s)

non_empty_string(s) == IF s = <<>> THEN None ELSE Some(s)

\* The result of a struct literal whose fields, pairs of a name and a
\* Result, are computed in the order given, each followed by `?`: the first
\* error, or the struct of the values.
Struct(fields) ==
    The({ IF \A i \in 1..Len(f) : IsOk(f[i][2])
          THEN Ok([k \in { f[i][1] : i \in 1..Len(f) } |->
                      f[CHOOSE i \in 1..Len(f) : f[i][1] = k][2].val])
          ELSE f[CHOOSE i \in 1..Len(f) :
                    IsErr(f[i][2]) /\ \A j \in 1..(i - 1) : IsOk(f[j][2])][2] :
          f \in {fields} })

\* The conversions of `?` into ParseError (error_chain foreign links).
FromParseIntError(r) ==
    The({ IF IsErr(x) THEN Err([kind |-> "ParseIntError", e |-> x.err]) ELSE x : x \in {r} })
FromParseDateError(r) ==
    The({ IF IsErr(x) THEN Err([kind |-> "ParseDateError", e |-> x.err]) ELSE x : x \in {r} })

\* Mutant: a node-set without nodes is an error.
read_string_required(reader, xpath_expr) ==
    The({ IF IsErr(v) THEN v
          ELSE IF v.val.type = "Nodeset" /\ v.val.nodes = {}
               THEN Err(InternalError("no node"))
          ELSE Ok(Value_string(reader.doc, v.val)) :
          v \in {evaluate(reader, xpath_expr)} })

read_string(reader, xpath_expr) ==
    The({ IF IsErr(v) THEN v ELSE Ok(Value_string(reader.doc, v.val)) :
          v \in {evaluate(reader, xpath_expr)} })

\* Mutant: an empty string is read as the nil uuid.
read_mbid_nil(reader, xpath_expr) ==
    The({ IF IsErr(s) THEN s
          ELSE IF s.val = <<>> THEN Ok([i \in 1..32 |-> "0"])
          ELSE Uuid_parse_str(s.val) :
          s \in {read_string(reader, xpath_expr)} })

read_mbid(reader, xpath_expr) ==
    The({ IF IsErr(s) THEN s ELSE Uuid_parse_str(s.val) :
          s \in {read_string(reader, xpath_expr)} })

read_nstring(reader, xpath_expr) ==
    The({ IF IsErr(s) THEN s ELSE Ok(non_empty_string(s.val)) :
          s \in {read_string(reader, xpath_expr)} })

read_date(reader, xpath_expr) ==
    The({ IF IsErr(s) THEN s ELSE FromParseDateError(Date_from_str(s.val)) :
          s \in {read_string(reader, xpath_expr)} })

\* evaluate(expr)?.string().parse::<uN>()?
read_uint(reader, xpath_expr, max) ==
    The({ IF IsErr(s) THEN s ELSE FromParseIntError(ParseUInt(s.val, max)) :
          s \in {read_string(reader, xpath_expr)} })

\* Duration::from_millis(n)
FromMillis(n) == IF IsErr(n) THEN n ELSE Ok(Duration_from_millis(n.val))

\* Duration::from_millis(evaluate(expr)?.string().parse::<u64>()?)
read_duration(reader, xpath_expr) ==
    The({ IF IsErr(s) THEN s
          ELSE The({ FromMillis(n) : n \in {FromParseIntError(ParseU64(s.val))} }) :
          s \in {read_string(reader, xpath_expr)} })

\* parse::<Date>().ok()
DateOk(d) == IF IsErr(d) THEN Ok(None) ELSE Ok(Some(d.val))

\* evaluate(expr)?.string().parse::<Date>().ok()
read_date_ok(reader, xpath_expr) ==
    The({ IF IsErr(s) THEN s
          ELSE The({ DateOk(d) : d \in {Date_from_str(s.val)} }) :
          s \in {read_string(reader, xpath_expr)} })

\* evaluate(expr)?.string().parse::<Enum>()?
read_enum_default(reader, xpath_expr, enum) ==
    The({ IF IsErr(s) THEN s
          ELSE IF s.val = <<>>
               THEN Ok(Variant(enum, "Other"))
          ELSE Enum_from_str(enum, s.val) :
          s \in {read_string(reader, xpath_expr)} })

read_enum(reader, xpath_expr, enum) ==
    The({ IF IsErr(s) THEN s ELSE Enum_from_str(enum, s.val) :
          s \in {read_string(reader, xpath_expr)} })

\* iter.collect::<Result<Vec<_>, _>>(): the values, or the first error.
Collect(results) ==
    The({ IF \A i \in 1..Len(rs) : IsOk(rs[i])
          THEN Ok([i \in 1..Len(rs) |-> rs[i].val])
          ELSE rs[CHOOSE i \in 1..Len(rs) :
                     IsErr(rs[i]) /\ \A j \in 1..(i - 1) : IsOk(rs[j])] :
          rs \in {results} })

\* Evaluates an XPath query, takes the first returned node (in document
\* order) and creates a new XPathNodeReader with that node.
relative_reader(reader, xpath_expr) ==
    The({ IF IsErr(v) THEN v
          ELSE IF v.val.type # "Nodeset"
               THEN Err(InvalidData("xpath did not specify a nodeset", <<>>))
          ELSE IF v.val.nodes = {}
               THEN Err(InvalidData("failed to find a node with the specified xpath", <<>>))
          ELSE Ok(XPathNodeReader(reader.doc, document_order(v.val.nodes)[1])) :
          v \in {evaluate(reader, xpath_expr)} })

\* ------------------------------------------------------------------------
\* Reference types (entities/refs.rs)
\* ------------------------------------------------------------------------

AreaRef_from_xml(reader) ==
    Struct(<<
        <<"mbid", read_mbid(reader, Desc(<<"area">>, <<Attr("id")>>))>>,
        <<"name", read_string(reader, Desc(<<"area", "name">>, <<Text>>))>>,
        <<"sort_name", read_string(reader, Desc(<<"area", "sort-name">>, <<Text>>))>>,
        <<"iso_3166", read_nstring(reader,
            Desc(<<"area", "iso-3166-1-code-list", "iso-3166-1-code">>, <<Text>>))>> >>)

ArtistRef_from_xml(reader) ==
    Struct(<<
        <<"mbid", read_mbid(reader, Desc(<<>>, <<Attr("id")>>))>>,
        <<"name", read_string(reader, Desc(<<"name">>, <<Text>>))>>,
        <<"sort_name", read_string(reader, Desc(<<"sort-name">>, <<Text>>))>> >>)

LabelRef_from_xml(reader) ==
    Struct(<<
        <<"mbid", read_mbid(reader, Desc(<<>>, <<Attr("id")>>))>>,
        <<"name", read_string(reader, Desc(<<"name">>, <<Text>>))>>,
        <<"sort_name", read_string(reader, Desc(<<"sort-name">>, <<Text>>))>>,
        <<"label_code", read_nstring(reader, Desc(<<"label-code">>, <<Text>>))>> >>)

RecordingRef_from_xml(reader) ==
    Struct(<<
        <<"mbid", read_mbid(reader, Desc(<<>>, <<Attr("id")>>))>>,
        <<"title", read_string(reader, Desc(<<"title">>, <<Text>>))>>,
        <<"length", read_duration(reader, Desc(<<"length">>, <<Text>>))>> >>)

ReleaseRef_from_xml(reader) ==
    Struct(<<
        <<"mbid", read_mbid(reader, Desc(<<>>, <<Attr("id")>>))>>,
        <<"title", read_string(reader, Desc(<<"title">>, <<Text>>))>>,
        <<"date", read_date(reader, Desc(<<"date">>, <<Text>>))>>,
        <<"status", read_enum(reader, Desc(<<"status">>, <<Text>>), "ReleaseStatus")>>,
        <<"country", read_string(reader, Desc(<<"country">>, <<Text>>))>> >>)

\* impl FromXml for String
String_from_xml(reader) == read_string(reader, Dot)

\* Item::from_xml for the item types of read_vec.
Item_from_xml(item, reader) ==
    CASE item = "ArtistRef" -> ArtistRef_from_xml(reader)
      [] item = "LabelRef" -> LabelRef_from_xml(reader)
      [] item = "RecordingRef" -> RecordingRef_from_xml(reader)
      [] item = "ReleaseRef" -> ReleaseRef_from_xml(reader)
      [] item = "String" -> String_from_xml(reader)

\* The items of a sequence of results that are Ok.
OkOnly(rs) == SelectSeq(rs, IsOk)

\* Mutant: the items that fail to decode are left out.
read_vec_partial(reader, xpath_expr, item) ==
    The({ IF IsErr(v) THEN v
          ELSE IF v.val.type = "Nodeset"
               THEN The({ Collect(OkOnly([i \in 1..Len(nodes) |->
                              Item_from_xml(item, XPathNodeReader(reader.doc, nodes[i]))])) :
                          nodes \in {document_order(v.val.nodes)} })
          ELSE Ok(<<>>) :
          v \in {evaluate(reader, xpath_expr)} })

\* Mutant: the nodes are taken last to first.
read_vec_reversed(reader, xpath_expr, item) ==
    The({ IF IsErr(v) THEN v
          ELSE IF v.val.type = "Nodeset"
               THEN The({ Collect([i \in 1..Len(nodes) |->
                              Item_from_xml(item, XPathNodeReader(reader.doc,
                                                      nodes[Len(nodes) + 1 - i]))]) :
                          nodes \in {document_order(v.val.nodes)} })
          ELSE Ok(<<>>) :
          v \in {evaluate(reader, xpath_expr)} })

\* Read the nodeset specified by the xpath_expr into a Vec. If something
\* other than a nodeset or nothing is found an empty vector is returned.
read_vec(reader, xpath_expr, item) ==
    The({ IF IsErr(v) THEN v
          ELSE IF v.val.type = "Nodeset"
               THEN The({ Collect([i \in 1..Len(nodes) |->
                              Item_from_xml(item, XPathNodeReader(reader.doc, nodes[i]))]) :
                          nodes \in {document_order(v.val.nodes)} })
          ELSE Ok(<<>>) :
          v \in {evaluate(reader, xpath_expr)} })

\* ------------------------------------------------------------------------
\* Entities (entities/area.rs, artist.rs, label.rs, recording.rs, release.rs,
\* release_group.rs)
\* ------------------------------------------------------------------------

\* Mutant: the name is read from the sort-name element.
Area_from_xml_sortname(reader) ==
    Struct(<<
        <<"mbid", read_mbid(reader, Desc(<<"area">>, <<Attr("id")>>))>>,
        <<"name", read_string(reader, Desc(<<"area", "sort-name">>, <<Text>>))>>,
        <<"sort_name", read_string(reader, Desc(<<"area", "sort-name">>, <<Text>>))>>,
        <<"area_type", read_enum(reader, Desc(<<"area">>, <<Attr("type")>>), "AreaType")>>,
        <<"iso_3166", read_nstring(reader,
            Desc(<<"area", "iso-3166-1-code-list", "iso-3166-1-code">>, <<Text>>))>> >>)

Area_from_xml(reader) ==
    Struct(<<
        <<"mbid", read_mbid(reader, Desc(<<"area">>, <<Attr("id")>>))>>,
        <<"name", read_string(reader, Desc(<<"area", "name">>, <<Text>>))>>,
        <<"sort_name", read_string(reader, Desc(<<"area", "sort-name">>, <<Text>>))>>,
        <<"area_type", read_enum(reader, Desc(<<"area">>, <<Attr("type")>>), "AreaType")>>,
        <<"iso_3166", read_nstring(reader,
            Desc(<<"area", "iso-3166-1-code-list", "iso-3166-1-code">>, <<Text>>))>> >>)

S_Female == <<"F", "e", "m", "a", "l", "e">>
S_Male == <<"M", "a", "l", "e">>

\* Mutant: a gender that is not known is dropped.
Gender_from_str_closed(s) ==
    IF s = S_Female THEN Some([variant |-> "Female"])
    ELSE IF s = S_Male THEN Some([variant |-> "Male"])
    ELSE None

\* Gender::from_str
Gender_from_str(s) ==
    IF s = S_Female THEN Some([variant |-> "Female"])
    ELSE IF s = S_Male THEN Some([variant |-> "Male"])
    ELSE IF s = <<>> THEN None
    ELSE Some([variant |-> "Other", s |-> s])

\* Some(x?)
SomeOf(r) == IF IsErr(r) THEN r ELSE Ok(Some(r.val))

\* The area of an artist: the AreaRef read from the first artist element,
\* None if there is no artist element.
Artist_area(reader) ==
    The({ IF IsOk(artist) /\ artist.val.type = "Nodeset" /\ artist.val.nodes # {}
          THEN The({ SomeOf(a) :
                     a \in {AreaRef_from_xml(XPathNodeReader(reader.doc,
                                document_order(artist.val.nodes)[1]))} })
          ELSE Ok(None) :
          artist \in {evaluate(reader, Desc(<<"artist">>, <<>>))} })

\* Gender::from_str(&reader.read_string(expr)?)
Artist_gender(reader) ==
    The({ IF IsErr(s) THEN s ELSE Ok(Gender_from_str(s.val)) :
          s \in {read_string(reader, Desc(<<"artist", "gender">>, <<Text>>))} })

Artist_from_xml(reader) ==
    Struct(<<
        <<"area", Artist_area(reader)>>,
        <<"mbid", read_mbid(reader, Desc(<<"artist">>, <<Attr("id")>>))>>,
        <<"name", read_string(reader, Desc(<<"artist", "name">>, <<Text>>))>>,
        <<"sort_name", read_string(reader, Desc(<<"artist", "sort-name">>, <<Text>>))>>,
        <<"aliases", read_vec(reader, Desc(<<"artist", "alias-list", "alias">>, <<Text>>),
                              "String")>>,
        <<"artist_type", read_enum(reader, Desc(<<"artist">>, <<Attr("type")>>),
                                   "ArtistType")>>,
        <<"gender", Artist_gender(reader)>>,
        <<"begin_date", read_date_ok(reader,
            Desc(<<"artist", "life-span", "begin">>, <<Text>>))>>,
        <<"end_date", read_date_ok(reader,
            Desc(<<"artist", "life-span", "end">>, <<Text>>))>>,
        <<"ipi_code", read_nstring(reader, Desc(<<"artist", "ipi">>, <<Text>>))>>,
        <<"isni_code", read_nstring(reader,
            Desc(<<"artist", "isni-list", "isni">>, <<Text>>))>> >>)

\* The alias text nodes of a label, which Label::from_xml iterates.
LabelAliasNodes(reader) ==
    evaluate(reader, Desc(<<"label", "alias-list", "alias">>, <<Text>>)).val.nodes

\* ord: the order in which nodeset.iter() yields the alias nodes.
Label_from_xml(reader, ord) ==
    Struct(<<
        <<"aliases", Ok([i \in 1..Len(ord) |-> string_value(reader.doc, ord[i])])>>,
        <<"mbid", read_mbid(reader, Desc(<<"label">>, <<Attr("id")>>))>>,
        <<"name", read_string(reader, Desc(<<"label", "name">>, <<Text>>))>>,
        <<"sort_name", read_string(reader, Desc(<<"label", "sort-name">>, <<Text>>))>>,
        <<"disambiguation", read_nstring(reader,
            Desc(<<"label", "disambiguation">>, <<Text>>))>>,
        <<"label_code", read_nstring(reader, Desc(<<"label", "label-code">>, <<Text>>))>>,
        <<"label_type", read_enum(reader, Desc(<<"label">>, <<Attr("type")>>),
                                  "LabelType")>>,
        <<"country", read_nstring(reader, Desc(<<"label", "country">>, <<Text>>))>>,
        <<"ipi_code", Ok(None)>>,
        <<"isni_code", Ok(None)>>,
        <<"begin_date", read_date_ok(reader,
            Desc(<<"label", "life-span", "begin">>, <<Text>>))>>,
        <<"end_date", read_date_ok(reader,
            Desc(<<"label", "life-span", "end">>, <<Text>>))>> >>)

\* The name-credit elements of a recording, which Recording::from_xml iterates.
RecordingArtistNodes(reader) ==
    evaluate(reader, Desc(<<"recording", "artist-credit", "name-credit">>, <<>>)).val.nodes

\* nodes.map(|node| XPathNodeReader::new(node, &context)
\*                      .and_then(|r| ArtistRef::from_xml(&r))).collect()
ArtistRefs(doc, nodes) ==
    Collect([i \in 1..Len(nodes) |-> ArtistRef_from_xml(XPathNodeReader(doc, nodes[i]))])

\* ord: the order in which nodeset.iter() yields the name-credit nodes.
Recording_from_xml(reader, ord) ==
    Struct(<<
        <<"mbid", read_mbid(reader, Desc(<<"recording">>, <<Attr("id")>>))>>,
        <<"title", read_string(reader, Desc(<<"recording", "title">>, <<Text>>))>>,
        <<"artists", ArtistRefs(reader.doc, ord)>>,
        <<"duration", read_duration(reader, Desc(<<"recording", "length">>, <<Text>>))>>,
        <<"isrc_code", read_nstring(reader,
            Desc(<<"recording", "isrc-list", "isrc">>, <<Attr("id")>>))>>,
        <<"disambiguation", read_nstring(reader,
            Desc(<<"recording", "disambiguation">>, <<Text>>))>>,
        <<"annotation", read_nstring(reader,
            Desc(<<"recording", "annotation">>, <<Text>>))>> >>)

\* A RecordingRef with nothing in it.
EmptyRecordingRef(mbid) ==
    [k \in {"mbid", "title", "length"} |->
        CASE k = "mbid" -> mbid
          [] k = "title" -> <<>>
          [] k = "length" -> Duration_from_millis(<<"0">>)]

\* Mutant: a track without recording gets an empty RecordingRef.
ReleaseTrack_from_xml_default(reader) ==
    The({ IF IsErr(mbid) THEN mbid
          ELSE Struct(<<
            <<"mbid", mbid>>,
            <<"position", read_uint(reader, Desc(<<"position">>, <<Text>>), U16Max)>>,
            <<"number", read_uint(reader, Desc(<<"number">>, <<Text>>), U16Max)>>,
            <<"title", read_string(reader, Desc(<<"title">>, <<Text>>))>>,
            <<"length", read_duration(reader, Desc(<<"length">>, <<Text>>))>>,
            <<"recording",
              The({ IF IsErr(v) THEN v
                    ELSE IF v.val.type = "Nodeset" /\ v.val.nodes # {}
                         THEN RecordingRef_from_xml(XPathNodeReader(reader.doc,
                                  document_order(v.val.nodes)[1]))
                    ELSE Ok(EmptyRecordingRef(mbid.val)) :
                    v \in {evaluate(reader, Desc(<<"recording">>, <<>>))} })>> >>) :
          mbid \in {read_mbid(reader, Desc(<<>>, <<Attr("id")>>))} })

ReleaseTrack_from_xml(reader) ==
    The({ IF IsErr(mbid) THEN mbid
          ELSE Struct(<<
            <<"mbid", mbid>>,
            <<"position", read_uint(reader, Desc(<<"position">>, <<Text>>), U16Max)>>,
            <<"number", read_uint(reader, Desc(<<"number">>, <<Text>>), U16Max)>>,
            <<"title", read_string(reader, Desc(<<"title">>, <<Text>>))>>,
            <<"length", read_duration(reader, Desc(<<"length">>, <<Text>>))>>,
            <<"recording",
              The({ IF IsErr(v) THEN v
                    ELSE IF v.val.type = "Nodeset" /\ v.val.nodes # {}
                         THEN RecordingRef_from_xml(XPathNodeReader(reader.doc,
                                  document_order(v.val.nodes)[1]))
                    ELSE Err(InvalidData("ReleaseTrack without RecordingRef", mbid.val)) :
                    v \in {evaluate(reader, Desc(<<"recording">>, <<>>))} })>> >>) :
          mbid \in {read_mbid(reader, Desc(<<>>, <<Attr("id")>>))} })

\* Mutant: the tracks of a medium are decoded last to first.
ReleaseMedium_tracks_reversed(reader) ==
    The({ IF IsErr(v) THEN v
          ELSE IF v.val.type = "Nodeset"
               THEN The({ Collect([i \in 1..Len(nodes) |->
                              ReleaseTrack_from_xml(XPathNodeReader(reader.doc,
                                  nodes[Len(nodes) + 1 - i]))]) :
                          nodes \in {document_order(v.val.nodes)} })
          ELSE Ok(<<>>) :
          v \in {evaluate(reader, Desc(<<"track-list", "track">>, <<>>))} })

\* The tracks of a medium, decoded in document order.
ReleaseMedium_tracks(reader) ==
    The({ IF IsErr(v) THEN v
          ELSE IF v.val.type = "Nodeset"
               THEN The({ Collect([i \in 1..Len(nodes) |->
                              ReleaseTrack_from_xml(XPathNodeReader(reader.doc, nodes[i]))]) :
                          nodes \in {document_order(v.val.nodes)} })
          ELSE Ok(<<>>) :
          v \in {evaluate(reader, Desc(<<"track-list", "track">>, <<>>))} })

ReleaseMedium_from_xml(reader) ==
    Struct(<<
        <<"tracks", ReleaseMedium_tracks(reader)>>,
        <<"position", read_uint(reader, Desc(<<"position">>, <<Text>>), U16Max)>> >>)

\* The name-credit elements of a release, which Release::from_xml iterates.
ReleaseArtistNodes(reader) ==
    evaluate(reader, Desc(<<"release", "artist-credit", "name-credit">>, <<>>)).val.nodes

\* The labels of a release, decoded in document order.
Release_labels(reader) ==
    The({ IF IsErr(v) THEN v
          ELSE IF v.val.type = "Nodeset"
               THEN The({ Collect([i \in 1..Len(nodes) |->
                              LabelRef_from_xml(XPathNodeReader(reader.doc, nodes[i]))]) :
                          nodes \in {document_order(v.val.nodes)} })
          ELSE Ok(<<>>) :
          v \in {evaluate(reader, Desc(<<"release", "label-info-list", "label-info">>, <<>>))} })

\* The mediums of a release, decoded in document order.
Release_mediums(reader) ==
    The({ IF IsErr(v) THEN v
          ELSE IF v.val.type = "Nodeset"
               THEN The({ Collect([i \in 1..Len(nodes) |->
                              ReleaseMedium_from_xml(XPathNodeReader(reader.doc, nodes[i]))]) :
                          nodes \in {document_order(v.val.nodes)} })
          ELSE Ok(<<>>) :
          v \in {evaluate(reader, Desc(<<"release", "medium-list", "medium">>, <<>>))} })

\* ord: the order in which nodeset.iter() yields the name-credit nodes.
Release_from_xml(reader, ord) ==
    Struct(<<
        <<"artists", ArtistRefs(reader.doc, ord)>>,
        <<"labels", Release_labels(reader)>>,
        <<"mediums", Release_mediums(reader)>>,
        <<"mbid", read_mbid(reader, Desc(<<"release">>, <<Attr("id")>>))>>,
        <<"title", read_string(reader, Desc(<<"release", "title">>, <<Text>>))>>,
        <<"date", read_date(reader, Desc(<<"release", "date">>, <<Text>>))>>,
        <<"country", read_string(reader, Desc(<<"release", "country">>, <<Text>>))>>,
        <<"catalogue_number", read_nstring(reader,
            Desc(<<"release", "label-info-list", "label-info", "catalog-number">>,
                 <<Text>>))>>,
        <<"barcode", read_nstring(reader, Desc(<<"release", "barcode">>, <<Text>>))>>,
        <<"status", read_enum(reader, Desc(<<"release", "status">>, <<Text>>),
                              "ReleaseStatus")>>,
        <<"packaging", read_nstring(reader, Desc(<<"release", "packaging">>, <<Text>>))>>,
        <<"language", read_string(reader,
            Desc(<<"release", "text-representation", "language">>, <<Text>>))>>,
        <<"script", read_string(reader,
            Desc(<<"release", "text-representation", "script">>, <<Text>>))>>,
        <<"disambiguation", read_nstring(reader,
            Desc(<<"release", "disambiguation">>, <<Text>>))>> >>)

\* The secondary-type text nodes below a reader's root, which
\* ReleaseGroupType::from_xml iterates.
SecondaryTypeNodes(reader) ==
    evaluate(reader, Desc(<<"secondary-type-list", "secondary-type">>, <<Text>>)).val.nodes

\* Some(s.parse()?) of the primary type that was read, None if there is none.
ReleaseGroupType_primary(reader) ==
    The({ IF IsErr(s) THEN s
          ELSE IF s.val = None THEN Ok(None)
          ELSE SomeOf(ReleaseGroupPrimaryType_from_str(s.val.val)) :
          s \in {read_nstring(reader, Desc(<<"primary-type">>, <<Text>>))} })

\* Mutant: the secondary types outside the vocabulary are left out.
ReleaseGroupType_from_xml_drop(reader, ord) ==
    Struct(<<
        <<"primary", ReleaseGroupType_primary(reader)>>,
        <<"secondary", Collect(OkOnly([i \in 1..Len(ord) |->
            ReleaseGroupSecondaryType_from_str(string_value(reader.doc, ord[i]))]))>> >>)

\* ord: the order in which nodeset.iter() yields the secondary-type nodes.
ReleaseGroupType_from_xml(reader, ord) ==
    Struct(<<
        <<"primary", ReleaseGroupType_primary(reader)>>,
        <<"secondary", Collect([i \in 1..Len(ord) |->
            ReleaseGroupSecondaryType_from_str(string_value(reader.doc, ord[i]))])>> >>)

\* The root of the reader ReleaseGroup::from_xml decodes the type with.
ReleaseGroupTypeReader(reader) == relative_reader(reader, Desc(<<"release-group">>, <<>>))

\* ord: as for ReleaseGroupType_from_xml.
ReleaseGroup_from_xml(reader, ord) ==
    Struct(<<
        <<"mbid", read_mbid(reader, Desc(<<"release-group">>, <<Attr("id")>>))>>,
        <<"title", read_string(reader, Desc(<<"release-group", "title">>, <<Text>>))>>,
        <<"releases", read_vec(reader,
            Desc(<<"release-group", "release-list", "release">>, <<>>), "ReleaseRef")>>,
        <<"artists", read_vec(reader,
            Desc(<<"release-group", "artist-credit", "name-credit", "artist">>, <<>>),
            "ArtistRef")>>,
        <<"release_type",
          The({ IF IsErr(rel_reader) THEN rel_reader
                ELSE ReleaseGroupType_from_xml(rel_reader.val, ord) :
                rel_reader \in {ReleaseGroupTypeReader(reader)} })>>,
        <<"disambiguation", read_nstring(reader,
            Desc(<<"release-group", "disambiguation">>, <<Text>>))>>,
        <<"annotation", read_nstring(reader,
            Desc(<<"release-group", "annotation">>, <<Text>>))>> >>)

\* ------------------------------------------------------------------------
\* Texts of the documents
\* ------------------------------------------------------------------------

S_not_a_uuid == <<"n", "o", "t", "-", "a", "-", "u", "u", "i", "d">>
UuidTemplate ==
    <<"a", "7", "4", "b", "1", "b", "7", "f", "-", "7", "1", "a", "5", "-", "4", "0", "1", "1", "-", "9", "4", "4", "1", "-", "d", "0", "b", "5", "e", "4", "1", "2", "2", "7", "1", "1">>
S_City == <<"C", "i", "t", "y">>
S_Country == <<"C", "o", "u", "n", "t", "r", "y">>
S_city == <<"c", "i", "t", "y">>
S_Person == <<"P", "e", "r", "s", "o", "n">>
S_Group == <<"G", "r", "o", "u", "p">>
S_person == <<"p", "e", "r", "s", "o", "n">>
S_Non_binary == <<"N", "o", "n", "-", "b", "i", "n", "a", "r", "y">>
S_female == <<"f", "e", "m", "a", "l", "e">>
S_JP == <<"J", "P">>
S_Honolulu == <<"H", "o", "n", "o", "l", "u", "l", "u">>
S_Japan == <<"J", "a", "p", "a", "n">>
S_Original_Production ==
    <<"O", "r", "i", "g", "i", "n", "a", "l", " ", "P", "r", "o", "d", "u", "c", "t", "i", "o", "n">>
S_ProductionOriginal ==
    <<"P", "r", "o", "d", "u", "c", "t", "i", "o", "n", "O", "r", "i", "g", "i", "n", "a", "l">>
S_Official == <<"O", "f", "f", "i", "c", "i", "a", "l">>
S_official == <<"o", "f", "f", "i", "c", "i", "a", "l">>
S_Album == <<"A", "l", "b", "u", "m">>
S_album == <<"a", "l", "b", "u", "m">>
S_Live == <<"L", "i", "v", "e">>
S_Compilation == <<"C", "o", "m", "p", "i", "l", "a", "t", "i", "o", "n">>
S_Demo == <<"D", "e", "m", "o">>
S_1992_09_21 == <<"1", "9", "9", "2", "-", "0", "9", "-", "2", "1">>
S_1992 == <<"1", "9", "9", "2">>
S_1992_xx == <<"1", "9", "9", "2", "-", "x", "x">>
S_238000 == <<"2", "3", "8", "0", "0", "0">>
S_abc == <<"a", "b", "c">>
S_CDR_6078 == <<"C", "D", "R", " ", "6", "0", "7", "8">>
S_724388023429 == <<"7", "2", "4", "3", "8", "8", "0", "2", "3", "4", "2", "9">>
S_Jewel_Case == <<"J", "e", "w", "e", "l", " ", "C", "a", "s", "e">>
S_live == <<"l", "i", "v", "e">>
S_299 == <<"2", "9", "9">>
S_eng == <<"e", "n", "g">>
S_Latn == <<"L", "a", "t", "n">>
S_GB == <<"G", "B">>
S_00519338442 == <<"0", "0", "5", "1", "9", "3", "3", "8", "4", "4", "2">>
S_0000000120254559 ==
    <<"0", "0", "0", "0", "0", "0", "0", "1", "2", "0", "2", "5", "4", "5", "5", "9">>
S_GBAYE9200070 == <<"G", "B", "A", "Y", "E", "9", "2", "0", "0", "0", "7", "0">>
S_note == <<"n", "o", "t", "e">>


\* ------------------------------------------------------------------------
\* Documents the decoders are run on
\* ------------------------------------------------------------------------

\* Most artists and labels of a release, most releases of a release group,
\* most aliases and secondary types.
MaxItems == 2

\* Most mediums of a release and most tracks of a medium.
MaxMediums == 2
MaxTracks == 2

SeqsUpTo(S, n) == UNION { [1..k -> S] : k \in 0..n }

\* The concatenation of a sequence of sequences.
RECURSIVE Flatten(_)
Flatten(ss) == IF ss = <<>> THEN <<>> ELSE Head(ss) \o Flatten(Tail(ss))

NoAttrs == [a \in {} |-> <<>>]
Leaf(name, text) == Elem(name, NoAttrs, text, <<>>)

\* The uuid of the entity of kind k (a hex digit) numbered j, i.
MkId(k, j, i) == <<k>> \o SubSeq(UuidTemplate, 2, 34) \o <<DigitChar(j), DigitChar(i)>>
MkName(k, i) == <<k, DigitChar(i)>>

\* An id attribute that is well-formed, malformed or missing.
IdKinds == {"ok", "bad", "none"}
IdAttr(kind, id) ==
    CASE kind = "ok" -> ("id" :> id)
      [] kind = "bad" -> ("id" :> S_not_a_uuid)
      [] kind = "none" -> NoAttrs

TypeAttr(t) == IF t = <<>> THEN NoAttrs ELSE ("type" :> t)

\* An optional element that is absent, present without text or present
\* with text.
OptKinds == {"absent", "empty", "text"}
Opt(name, kind, text) ==
    CASE kind = "absent" -> <<>>
      [] kind = "empty" -> <<Leaf(name, <<>>)>>
      [] kind = "text" -> <<Leaf(name, text)>>

\* The same for an element wrapped in a list element.
OptIn(list, name, kind, text) ==
    IF kind = "absent" THEN <<>>
    ELSE <<Elem(list, NoAttrs, <<>>, Opt(name, kind, text))>>

Metadata(kids) == Document(Elem("metadata", NoAttrs, <<>>, kids))

\* The element n without the children, and the children of children, that
\* have one of the given names.
Without(n, names) ==
    [n EXCEPT !.kids =
        LET ks == SelectSeq(@, LAMBDA k : k.name \notin names)
        IN  [i \in 1..Len(ks) |->
                [ks[i] EXCEPT !.kids = SelectSeq(@, LAMBDA k : k.name \notin names)]]]

\* The elements that hold the strings shown to a user, and the documents of
\* an element from which none, one or all of them are missing.
DisplayNames == {"name", "sort-name", "title", "country", "language", "script"}
DisplaySets == {{}, DisplayNames} \cup { {x} : x \in DisplayNames }
Undisplayed(top) == { Metadata(<<Without(top, names)>>) : names \in DisplaySets }

\* <area id type><name/><sort-name/><iso-3166-1-code-list/></area>
AreaNamed(id, type, iso, name, sort_name) ==
    Elem("area", IdAttr(id, MkId("f", 0, 1)) @@ TypeAttr(type), <<>>,
         <<Leaf("name", name), Leaf("sort-name", sort_name)>>
         \o OptIn("iso-3166-1-code-list", "iso-3166-1-code", iso, S_JP))

AreaElem(id, type, iso) == AreaNamed(id, type, iso, S_Honolulu, S_Honolulu)

\* The name and sort name of the areas.
AreaNames == {<<S_Honolulu, S_Honolulu>>, <<S_Japan, S_Japan>>, <<S_Honolulu, S_Japan>>}

AreaDocs ==
    { Metadata(<<AreaNamed(id, type, iso, n[1], n[2])>>) :
        id \in IdKinds, type \in {S_City, S_Country, S_city, <<>>}, iso \in OptKinds,
        n \in AreaNames }
    \cup Undisplayed(AreaElem("ok", S_City, "text"))

\* <artist id type> with name, sort-name, ipi, isni-list, gender, area,
\* life-span and alias-list.  p.area is an IdKind or "absent".
ArtistElem(p) ==
    Elem("artist", IdAttr(p.id, MkId("a", 0, 1)) @@ TypeAttr(p.type), <<>>,
         <<Leaf("name", MkName("A", 1)), Leaf("sort-name", MkName("a", 1))>>
         \o Opt("ipi", p.ipi, S_00519338442)
         \o OptIn("isni-list", "isni", p.isni, S_0000000120254559)
         \o Opt("gender", p.gender, p.gender_text)
         \o (IF p.area = "absent" THEN <<>>
             ELSE <<AreaElem(p.area, <<>>, p.iso)>>)
         \o (IF p.begin = <<>> THEN <<>>
             ELSE <<Elem("life-span", NoAttrs, <<>>, <<Leaf("begin", p.begin)>>)>>)
         \o (IF p.aliases = <<>> THEN <<>>
             ELSE <<Elem("alias-list", NoAttrs, <<>>,
                      [i \in 1..Len(p.aliases) |-> Leaf("alias", p.aliases[i])])>>))

ArtistBase ==
    [id |-> "ok", type |-> S_Person, ipi |-> "text", isni |-> "text",
     gender |-> "text", gender_text |-> S_Female, area |-> "ok", iso |-> "text",
     begin |-> S_1992, aliases |-> <<MkName("L", 1), MkName("L", 2)>>]

GenderTexts == {S_Female, S_Male, S_Non_binary, S_female}

ArtistParams ==
    { [ArtistBase EXCEPT !.id = id, !.type = type, !.gender = g[1], !.gender_text = g[2],
                         !.area = area] :
        id \in {"ok", "bad"}, type \in {S_Person, S_person, <<>>},
        g \in ({"absent", "empty"} \X {<<>>}) \cup ({"text"} \X GenderTexts),
        area \in IdKinds \cup {"absent"} }
    \cup
    { [ArtistBase EXCEPT !.ipi = ipi, !.isni = isni, !.iso = iso, !.begin = begin] :
        ipi \in OptKinds, isni \in OptKinds, iso \in OptKinds,
        begin \in {S_1992, S_1992_xx, <<>>} }

ArtistDocs ==
    { Metadata(<<ArtistElem(p)>>) : p \in ArtistParams } \cup Undisplayed(ArtistElem(ArtistBase))

\* <label id type> with name, sort-name, disambiguation, label-code, country,
\* life-span and alias-list.
LabelElem(p) ==
    Elem("label", IdAttr(p.id, MkId("b", 0, 1)) @@ TypeAttr(p.type), <<>>,
         <<Leaf("name", MkName("B", 1)), Leaf("sort-name", MkName("b", 1))>>
         \o Opt("disambiguation", p.disambiguation, S_note)
         \o Opt("label-code", p.label_code, S_299)
         \o Opt("country", p.country, S_GB)
         \o (IF p.begin = <<>> THEN <<>>
             ELSE <<Elem("life-span", NoAttrs, <<>>, <<Leaf("begin", p.begin)>>)>>)
         \o (IF p.aliases = <<>> THEN <<>>
             ELSE <<Elem("alias-list", NoAttrs, <<>>,
                      [i \in 1..Len(p.aliases) |-> Leaf("alias", p.aliases[i])])>>))

LabelParams ==
    { [id |-> id, type |-> type, disambiguation |-> d, label_code |-> c, country |-> y,
       begin |-> S_1992, aliases |-> <<MkName("L", 1), MkName("L", 2)>>] :
        id \in {"ok"}, type \in {S_Original_Production, S_ProductionOriginal},
        d \in OptKinds, c \in OptKinds, y \in OptKinds }
    \cup
    { [id |-> id, type |-> S_Original_Production, disambiguation |-> "text",
       label_code |-> "text", country |-> "text", begin |-> begin,
       aliases |-> [i \in 1..n |-> MkName("L", i)]] :
        id \in IdKinds, begin \in {S_1992, S_1992_xx, <<>>}, n \in 0..MaxItems }

LabelBase ==
    [id |-> "ok", type |-> S_Original_Production, disambiguation |-> "text",
     label_code |-> "text", country |-> "text", begin |-> S_1992,
     aliases |-> <<MkName("L", 1), MkName("L", 2)>>]

LabelDocs ==
    { Metadata(<<LabelElem(p)>>) : p \in LabelParams } \cup Undisplayed(LabelElem(LabelBase))

\* A malformed uuid of n characters (n is neither 32 nor 36).
BadId(n) == SubSeq(UuidTemplate, 1, n)

\* The id of the j,i-th item of a list: well-formed, or malformed in a way
\* that tells the items apart.
ItemId(kind, k, j, i) == IF kind = "ok" THEN MkId(k, j, i) ELSE BadId(4 * j + i)
ItemKinds == {"ok", "bad"}

\* <artist-credit><name-credit><artist id><name/><sort-name/></artist>...
NameCredit(kind, i) ==
    Elem("name-credit", NoAttrs, <<>>,
         <<Elem("artist", ("id" :> ItemId(kind, "a", 0, i)), <<>>,
                <<Leaf("name", MkName("A", i)), Leaf("sort-name", MkName("a", i))>>)>>)

ArtistCredit(kinds) ==
    IF kinds = <<>> THEN <<>>
    ELSE <<Elem("artist-credit", NoAttrs, <<>>,
                [i \in 1..Len(kinds) |-> NameCredit(kinds[i], i)])>>

\* <recording id> with title, length, disambiguation, annotation,
\* artist-credit and isrc-list.
RecordingElem(p) ==
    Elem("recording", IdAttr(p.id, MkId("c", 0, 1)), <<>>,
         <<Leaf("title", MkName("R", 1))>>
         \o Opt("length", p.length, p.length_text)
         \o Opt("disambiguation", p.disambiguation, S_live)
         \o Opt("annotation", p.annotation, S_note)
         \o ArtistCredit(p.artists)
         \o (IF p.isrc = "absent" THEN <<>>
             ELSE <<Elem("isrc-list", NoAttrs, <<>>,
                      <<Elem("isrc", ("id" :> IF p.isrc = "empty" THEN <<>> ELSE S_GBAYE9200070),
                             <<>>, <<>>)>>)>>))

RecordingBase ==
    [id |-> "ok", length |-> "text", length_text |-> S_238000, disambiguation |-> "text",
     annotation |-> "text", artists |-> <<"ok">>, isrc |-> "text"]

RecordingParams ==
    { [RecordingBase EXCEPT !.disambiguation = d, !.annotation = a, !.isrc = c] :
        d \in OptKinds, a \in OptKinds, c \in OptKinds }
    \cup
    { [RecordingBase EXCEPT !.id = id, !.length = l[1], !.length_text = l[2]] :
        id \in IdKinds,
        l \in {<<"absent", <<>>>>, <<"text", S_238000>>, <<"text", S_abc>>} }

RecordingDocs ==
    { Metadata(<<RecordingElem(p)>>) : p \in RecordingParams }
    \cup Undisplayed(RecordingElem(RecordingBase))

\* The recordings whose artist list varies.
RecordingListParams ==
    { [RecordingBase EXCEPT !.id = id, !.artists = a] :
        id \in {"ok", "bad"}, a \in SeqsUpTo(ItemKinds, MaxItems) }

RecordingListDocs == { Metadata(<<RecordingElem(p)>>) : p \in RecordingListParams }

\* <label-info><catalog-number/><label id><name/><sort-name/><label-code/>
LabelInfo(kind, i, catno) ==
    Elem("label-info", NoAttrs, <<>>,
         Opt("catalog-number", catno, S_CDR_6078)
         \o <<Elem("label", ("id" :> ItemId(kind, "b", 0, i)), <<>>,
                   <<Leaf("name", MkName("B", i)), Leaf("sort-name", MkName("b", i)),
                     Leaf("label-code", S_299)>>)>>)

\* A track of a medium: complete, without recording, with a recording whose
\* id is malformed, without recording and with a position that is no number,
\* or complete with a position and number that count down along the list.
TrackKinds == {"ok", "norec"}
TrackKindsAll == TrackKinds \cup {"badrec", "norec_badpos", "late"}

\* The position and number text of the i-th track of a list.
TrackPos(kind, i) == IF kind = "late" THEN <<DigitChar(9 - i)>> ELSE <<DigitChar(i)>>

Track(kind, j, i) ==
    Elem("track", ("id" :> MkId("e", j, i)), <<>>,
         <<Leaf("position", IF kind = "norec_badpos" THEN S_abc ELSE TrackPos(kind, i)),
           Leaf("number", TrackPos(kind, i)),
           Leaf("title", MkName("T", i)),
           Leaf("length", S_238000)>>
         \o (IF kind \in {"norec", "norec_badpos"} THEN <<>>
             ELSE <<Elem("recording",
                         ("id" :> ItemId(IF kind = "badrec" THEN "bad" ELSE "ok", "c", j, i)),
                         <<>>,
                         <<Leaf("title", MkName("R", i)), Leaf("length", S_238000)>>)>>))

Medium(tracks, j) ==
    Elem("medium", NoAttrs, <<>>,
         <<Leaf("position", <<DigitChar(j)>>),
           Elem("track-list", NoAttrs, <<>>,
                [i \in 1..Len(tracks) |-> Track(tracks[i], j, i)])>>)

\* <release id> with title, status, disambiguation, packaging,
\* text-representation, artist-credit, date, country, barcode,
\* label-info-list and medium-list.
ReleaseElem(p) ==
    Elem("release", IdAttr(p.id, MkId("9", 0, 1)), <<>>,
         <<Leaf("title", MkName("Z", 1))>>
         \o Opt("status", IF p.status = <<>> THEN "absent" ELSE "text", p.status)
         \o Opt("disambiguation", p.disambiguation, S_note)
         \o Opt("packaging", p.packaging, S_Jewel_Case)
         \o <<Elem("text-representation", NoAttrs, <<>>,
                   <<Leaf("language", S_eng), Leaf("script", S_Latn)>>)>>
         \o ArtistCredit(p.artists)
         \o Opt("date", IF p.date = <<>> THEN "absent" ELSE "text", p.date)
         \o <<Leaf("country", S_GB)>>
         \o Opt("barcode", p.barcode, S_724388023429)
         \o (IF p.labels = <<>> THEN <<>>
             ELSE <<Elem("label-info-list", NoAttrs, <<>>,
                      [i \in 1..Len(p.labels) |-> LabelInfo(p.labels[i], i, p.catno)])>>)
         \o (IF p.mediums = <<>> THEN <<>>
             ELSE <<Elem("medium-list", NoAttrs, <<>>,
                      [j \in 1..Len(p.mediums) |-> Medium(p.mediums[j], j)])>>))

ReleaseBase ==
    [id |-> "ok", status |-> S_Official, date |-> S_1992_09_21, disambiguation |-> "text",
     packaging |-> "text", barcode |-> "text", catno |-> "text",
     artists |-> <<"ok">>, labels |-> <<"ok">>, mediums |-> << <<"ok">> >>]

ReleaseParams ==
    { [ReleaseBase EXCEPT !.disambiguation = d, !.packaging = k, !.barcode = b,
                          !.catno = c] :
        d \in OptKinds, k \in OptKinds, b \in OptKinds, c \in OptKinds }
    \cup
    { [ReleaseBase EXCEPT !.id = id, !.status = s, !.date = t] :
        id \in IdKinds, s \in {S_Official, S_official, <<>>},
        t \in {S_1992_09_21, S_1992, S_1992_xx, <<>>} }

ReleaseDocs ==
    { Metadata(<<ReleaseElem(p)>>) : p \in ReleaseParams }
    \cup Undisplayed(ReleaseElem(ReleaseBase))

TrackLists == SeqsUpTo(TrackKinds, MaxTracks)

\* The releases whose lists vary: the artists, the labels, the mediums and
\* their tracks, and a failing artist or label together with any one medium.
ReleaseListParams ==
    { [ReleaseBase EXCEPT !.artists = a] : a \in SeqsUpTo(ItemKinds, MaxItems) }
    \cup
    { [ReleaseBase EXCEPT !.labels = l] : l \in SeqsUpTo(ItemKinds, MaxItems) }
    \cup
    { [ReleaseBase EXCEPT !.mediums = m] : m \in SeqsUpTo(TrackLists, MaxMediums) }
    \cup
    { [ReleaseBase EXCEPT !.artists = <<a>>, !.labels = <<l>>, !.mediums = <<t>>] :
        a \in ItemKinds, l \in ItemKinds, t \in SeqsUpTo(TrackKindsAll, MaxTracks) }

ReleaseListDocs == { Metadata(<<ReleaseElem(p)>>) : p \in ReleaseListParams }

\* A release of a release group's release-list: complete, with a malformed
\* id or with a date that is no date.
ReleaseRefKinds == {"ok", "bad", "baddate"}

ReleaseRefElem(kind, i) ==
    Elem("release", ("id" :> ItemId(IF kind = "bad" THEN "bad" ELSE "ok", "9", 0, i)), <<>>,
         <<Leaf("title", MkName("Z", i)), Leaf("status", S_Official),
           Leaf("date", IF kind = "baddate" THEN S_1992_xx ELSE S_1992_09_21),
           Leaf("country", S_GB)>>)

\* <release-group id type> with title, disambiguation, annotation,
\* primary-type, secondary-type-list, artist-credit and release-list.
ReleaseGroupElem(p) ==
    Elem("release-group", IdAttr(p.id, MkId("d", 0, 1)) @@ TypeAttr(S_Album), <<>>,
         <<Leaf("title", MkName("G", 1))>>
         \o Opt("disambiguation", p.disambiguation, S_note)
         \o Opt("annotation", p.annotation, S_note)
         \o Opt("primary-type", p.primary_kind, p.primary)
         \o (IF p.secondary = <<>> THEN <<>>
             ELSE <<Elem("secondary-type-list", NoAttrs, <<>>,
                      [i \in 1..Len(p.secondary) |-> Leaf("secondary-type", p.secondary[i])])>>)
         \o ArtistCredit(p.artists)
         \o (IF p.releases = <<>> THEN <<>>
             ELSE <<Elem("release-list", NoAttrs, <<>>,
                      [i \in 1..Len(p.releases) |-> ReleaseRefElem(p.releases[i], i)])>>))

\* The texts of the secondary-type elements: two of the vocabulary, one
\* outside it, and none.
SecondaryTexts == {S_Live, S_Compilation, S_live, <<>>}

ReleaseGroupBase ==
    [id |-> "ok", disambiguation |-> "text", annotation |-> "text",
     primary_kind |-> "text", primary |-> S_Album,
     secondary |-> <<S_Live>>, artists |-> <<"ok">>, releases |-> <<"ok">>]

ReleaseGroupParams ==
    { [ReleaseGroupBase EXCEPT !.id = id, !.disambiguation = d, !.annotation = a,
                               !.primary_kind = t[1], !.primary = t[2]] :
        id \in {"ok", "bad"}, d \in OptKinds, a \in OptKinds,
        t \in ({"absent", "empty"} \X {<<>>}) \cup ({"text"} \X {S_Album, S_album}) }
    \cup
    { [ReleaseGroupBase EXCEPT !.secondary = s] :
        s \in SeqsUpTo(SecondaryTexts, MaxItems) }

ReleaseGroupDocs ==
    { Metadata(<<ReleaseGroupElem(p)>>) : p \in ReleaseGroupParams }
    \cup Undisplayed(ReleaseGroupElem(ReleaseGroupBase))

\* The release groups whose lists vary.
ReleaseGroupListParams ==
    { [ReleaseGroupBase EXCEPT !.artists = a, !.releases = r] :
        a \in SeqsUpTo(ItemKinds, MaxItems), r \in SeqsUpTo(ReleaseRefKinds, MaxItems) }

ReleaseGroupListDocs == { Metadata(<<ReleaseGroupElem(p)>>) : p \in ReleaseGroupListParams }

\* ------------------------------------------------------------------------
\* Inputs of the date specifications
\* ------------------------------------------------------------------------

\* Components a date input is put together from: numbers with and without
\* leading zeros or sign, numbers beyond u8 and u16, text, nothing.
DateTokens ==
    { <<>>,
      <<"2", "0", "1", "7">>,
      <<"0", "4">>,
      <<"1", "5">>,
      <<"1">>,
      <<"+", "7">>,
      <<"2", "5", "6">>,
      <<"6", "5", "5", "3", "6">>,
      <<"a", "b", "c">> }

RECURSIVE JoinDash(_)
JoinDash(cs) ==
    IF Len(cs) = 1 THEN cs[1]
    ELSE cs[1] \o <<"-">> \o JoinDash(Tail(cs))

DateInputs ==
    UNION { { JoinDash(cs) : cs \in [1..n -> DateTokens] } : n \in 1..MaxComps }

DateValues ==
    LET ys == {0, 1, 2017, U16Max}
        ms == {0, 4, U8Max}
        ds == {0, 15, U8Max}
    IN  { DateYear(y) : y \in ys }
        \cup { DateMonth(y, m) : y \in ys, m \in ms }
        \cup { DateDay(y, m, d) : y \in ys, m \in ms, d \in ds }

NoDate == [variant |-> "None"]
NoAcc == [n \in {} |-> 0]

DateIdle ==
    /\ dateStr = <<>>
    /\ dateRes = Pending
    /\ dateVal = NoDate
    /\ acc = NoAcc

\* ------------------------------------------------------------------------
\* Inputs of the enum specification
\* ------------------------------------------------------------------------

\* The vocabulary of each closed enum: <<enum, literal, variant>>.
Vocabulary ==
    { <<"AreaType", <<"C", "o", "u", "n", "t", "r", "y">>, "Country">>,
      <<"AreaType", <<"S", "u", "b", "d", "i", "v", "i", "s", "i", "o", "n">>, "Subdivision">>,
      <<"AreaType", <<"C", "o", "u", "n", "t", "y">>, "County">>,
      <<"AreaType", <<"M", "u", "n", "c", "i", "p", "a", "l", "i", "t", "y">>, "Muncipality">>,
      <<"AreaType", <<"C", "i", "t", "y">>, "City">>,
      <<"AreaType", <<"D", "i", "s", "t", "r", "i", "c", "t">>, "District">>,
      <<"AreaType", <<"I", "s", "l", "a", "n", "d">>, "Island">>,
      <<"ArtistType", <<"P", "e", "r", "s", "o", "n">>, "Person">>,
      <<"ArtistType", <<"G", "r", "o", "u", "p">>, "Group">>,
      <<"ArtistType", <<"O", "r", "c", "h", "e", "s", "t", "r", "a">>, "Orchestra">>,
      <<"ArtistType", <<"C", "h", "o", "i", "r">>, "Choir">>,
      <<"ArtistType", <<"C", "h", "a", "r", "a", "c", "t", "e", "r">>, "Character">>,
      <<"ArtistType", <<"O", "t", "h", "e", "r">>, "Other">>,
      <<"LabelType", <<"I", "m", "p", "r", "i", "n", "t">>, "Imprint">>,
      <<"LabelType", <<"O", "r", "i", "g", "i", "n", "a", "l", " ", "P", "r", "o", "d", "u", "c", "t", "i", "o", "n">>, "ProductionOriginal">>,
      <<"LabelType", <<"B", "o", "o", "t", "l", "e", "g", " ", "P", "r", "o", "d", "u", "c", "t", "i", "o", "n">>, "ProductionBootleg">>,
      <<"LabelType", <<"R", "e", "i", "s", "s", "u", "e", " ", "P", "r", "o", "d", "u", "c", "t", "i", "o", "n">>, "ProductionReissue">>,
      <<"LabelType", <<"D", "i", "s", "t", "r", "i", "b", "u", "t", "i", "o", "n">>, "Distribution">>,
      <<"LabelType", <<"H", "o", "l", "d", "i", "n", "g">>, "Holding">>,
      <<"LabelType", <<"R", "i", "g", "h", "t", "s", "S", "o", "c", "i", "e", "t", "y">>, "RightsSociety">>,
      <<"ReleaseStatus", <<"O", "f", "f", "i", "c", "i", "a", "l">>, "Official">>,
      <<"ReleaseStatus", <<"P", "r", "o", "m", "o", "t", "i", "o", "n", "a", "l">>, "Promotional">>,
      <<"ReleaseStatus", <<"B", "o", "o", "t", "l", "e", "g">>, "Bootleg">>,
      <<"ReleaseStatus", <<"P", "s", "e", "u", "d", "o", "R", "e", "l", "e", "a", "s", "e">>, "PseudoRelease">>,
      <<"ReleaseGroupPrimaryType", <<"A", "l", "b", "u", "m">>, "Album">>,
      <<"ReleaseGroupPrimaryType", <<"S", "i", "n", "g", "l", "e">>, "Single">>,
      <<"ReleaseGroupPrimaryType", <<"E", "P">>, "EP">>,
      <<"ReleaseGroupPrimaryType", <<"B", "r", "o", "a", "d", "c", "a", "s", "t">>, "Broadcast">>,
      <<"ReleaseGroupPrimaryType", <<"O", "t", "h", "e", "r">>, "Other">>,
      <<"ReleaseGroupSecondaryType", <<"C", "o", "m", "p", "i", "l", "a", "t", "i", "o", "n">>, "Compilation">>,
      <<"ReleaseGroupSecondaryType", <<"S", "o", "u", "n", "d", "t", "r", "a", "c", "k">>, "Soundtrack">>,
      <<"ReleaseGroupSecondaryType", <<"S", "p", "o", "k", "e", "n", "w", "o", "r", "d">>, "Spokenword">>,
      <<"ReleaseGroupSecondaryType", <<"I", "n", "t", "e", "r", "v", "i", "e", "w">>, "Interview">>,
      <<"ReleaseGroupSecondaryType", <<"A", "u", "d", "i", "o", "b", "o", "o", "k">>, "Audiobook">>,
      <<"ReleaseGroupSecondaryType", <<"L", "i", "v", "e">>, "Live">>,
      <<"ReleaseGroupSecondaryType", <<"R", "e", "m", "i", "x">>, "Remix">>,
      <<"ReleaseGroupSecondaryType", <<"D", "J", "-", "m", "i", "x">>, "DjMix">>,
      <<"ReleaseGroupSecondaryType", <<"M", "i", "x", "t", "a", "p", "e", "/", "S", "t", "r", "e", "e", "t">>, "MixtapeStreet">> }

\* Strings outside the vocabularies: empty, other case, variant identifiers.
OtherLiterals ==
    { <<>>,
      <<"c", "i", "t", "y">>,
      <<"C", "O", "U", "N", "T", "R", "Y">>,
      <<"p", "e", "r", "s", "o", "n">>,
      <<"o", "f", "f", "i", "c", "i", "a", "l">>,
      <<"P", "s", "e", "u", "d", "o", "-", "R", "e", "l", "e", "a", "s", "e">>,
      <<"a", "l", "b", "u", "m">>,
      <<"E", "p">>,
      <<"D", "J", "-", "M", "i", "x">>,
      <<"M", "i", "x", "t", "a", "p", "e">>,
      <<"P", "r", "o", "d", "u", "c", "t", "i", "o", "n", "O", "r", "i", "g", "i", "n", "a", "l">>,
      <<"D", "j", "M", "i", "x">>,
      <<"M", "i", "x", "t", "a", "p", "e", "S", "t", "r", "e", "e", "t">>,
      <<"O", "r", "i", "g", "i", "n", "a", "l", " ", " ", "P", "r", "o", "d", "u", "c", "t", "i", "o", "n">>,
      <<"F", "e", "m", "a", "l", "e">>,
      <<"M", "a", "l", "e">>,
      <<"N", "o", "n", "-", "b", "i", "n", "a", "r", "y">> }

ClosedEnums == { e[1] : e \in Vocabulary }
EnumInputs == { e[2] : e \in Vocabulary } \cup OtherLiterals

NoEnum == [enum |-> "None"]

EnumIdle ==
    /\ enumStr = <<>>
    /\ enumOut = NoEnum

\* ------------------------------------------------------------------------
\* Inputs of the decoder specifications
\* ------------------------------------------------------------------------

NoCall == [op |-> "none"]

\* No decoder or reader has been called.
XmlIdle ==
    /\ call = NoCall
    /\ res = Pending

\* The strings Gender::from_str is called on.
GenderInputs == GenderTexts \cup {<<>>}

\* The expressions read_nstring is called with on an area document.
NStringExprs ==
    { Desc(<<"area", "iso-3166-1-code-list", "iso-3166-1-code">>, <<Text>>),
      Desc(<<"area", "life-span", "begin">>, <<Text>>),
      Desc(<<"area", "name">>, <<Text>>) }

\* The expressions read_string is called with on an area document.
StringExprs ==
    { Desc(<<"area", "name">>, <<Text>>),
      Desc(<<"area", "sort-name">>, <<Text>>),
      Desc(<<"area", "iso-3166-1-code-list", "iso-3166-1-code">>, <<Text>>),
      Desc(<<"area", "title">>, <<Text>>) }

\* The expressions and item types read_vec is called with on a release
\* group document: three that select nodes, one that matches nothing and
\* two that evaluate to a number and to a string.
ReadVecQueries ==
    { [expr |-> Desc(<<"release-group", "release-list", "release">>, <<>>),
       item |-> "ReleaseRef"],
      [expr |-> Desc(<<"release-group", "artist-credit", "name-credit", "artist">>, <<>>),
       item |-> "ArtistRef"],
      [expr |-> Desc(<<"release-group", "release-list", "release", "title">>, <<Text>>),
       item |-> "String"],
      [expr |-> Desc(<<"release-group", "alias-list", "alias">>, <<Text>>),
       item |-> "String"],
      [expr |-> CountOf(<<Self, Dos, Child("release")>>), item |-> "ReleaseRef"],
      [expr |-> StringOf(<<Self, Dos, Child("title"), Text>>), item |-> "String"] }

\* ------------------------------------------------------------------------
\* Actions on dates
\* ------------------------------------------------------------------------

\* A caller parses the string.
ParseDate ==
    /\ dateRes = Pending
    /\ dateVal = NoDate
    /\ dateRes' = Date_from_str(dateStr)
    /\ UNCHANGED <<dateStr, dateVal, acc>>
    /\ UNCHANGED enumVars
    /\ UNCHANGED xmlVars

CallYear ==
    /\ dateVal # NoDate
    /\ "year" \notin DOMAIN acc
    /\ acc' = acc @@ ("year" :> Date_year(dateVal))
    /\ UNCHANGED <<dateStr, dateRes, dateVal>>
    /\ UNCHANGED enumVars
    /\ UNCHANGED xmlVars

CallMonth ==
    /\ dateVal # NoDate
    /\ "month" \notin DOMAIN acc
    /\ acc' = acc @@ ("month" :> Date_month(dateVal))
    /\ UNCHANGED <<dateStr, dateRes, dateVal>>
    /\ UNCHANGED enumVars
    /\ UNCHANGED xmlVars

CallDay ==
    /\ dateVal # NoDate
    /\ "day" \notin DOMAIN acc
    /\ acc' = acc @@ ("day" :> Date_day(dateVal))
    /\ UNCHANGED <<dateStr, dateRes, dateVal>>
    /\ UNCHANGED enumVars
    /\ UNCHANGED xmlVars

\* ------------------------------------------------------------------------
\* Actions on enums
\* ------------------------------------------------------------------------

\* A caller parses enumStr as the given enum.
ParseEnum(enum) ==
    /\ enumOut = NoEnum
    /\ enumOut' = [enum |-> enum, res |-> Enum_from_str(enum, enumStr)]
    /\ UNCHANGED enumStr
    /\ UNCHANGED dateVars
    /\ UNCHANGED xmlVars

ParseAreaType == ParseEnum("AreaType")
ParseArtistType == ParseEnum("ArtistType")
ParseLabelType == ParseEnum("LabelType")
ParseReleaseStatus == ParseEnum("ReleaseStatus")
ParseReleaseGroupPrimaryType == ParseEnum("ReleaseGroupPrimaryType")
ParseReleaseGroupSecondaryType == ParseEnum("ReleaseGroupSecondaryType")

\* ------------------------------------------------------------------------
\* Actions of the decoders and readers
\* ------------------------------------------------------------------------

\* Gender::from_str is called on a string.
ParseGender ==
    /\ call = NoCall
    /\ \E s \in GenderInputs :
          /\ call' = [op |-> "Gender", s |-> s]
          /\ res' = Gender_from_str(s)
    /\ UNCHANGED dateVars
    /\ UNCHANGED enumVars

\* read_nstring is called on the reader of an area document.
ReadNString ==
    /\ call = NoCall
    /\ \E d \in AreaDocs, e \in NStringExprs :
          /\ call' = [op |-> "read_nstring", doc |-> d, expr |-> e]
          /\ res' = read_nstring(XPathStrReader(d), e)
    /\ UNCHANGED dateVars
    /\ UNCHANGED enumVars

\* read_string is called on the reader of an area document.
ReadString ==
    /\ call = NoCall
    /\ \E d \in Undisplayed(AreaElem("ok", S_City, "absent")), e \in StringExprs :
          /\ call' = [op |-> "read_string", doc |-> d, expr |-> e]
          /\ res' = read_string(XPathStrReader(d), e)
    /\ UNCHANGED dateVars
    /\ UNCHANGED enumVars

\* read_vec is called on the reader of a release group document.
ReadVec ==
    /\ call = NoCall
    /\ \E d \in ReleaseGroupListDocs, q \in ReadVecQueries :
          /\ call' = [op |-> "read_vec", doc |-> d, expr |-> q.expr, item |-> q.item]
          /\ res' = read_vec(XPathStrReader(d), q.expr, q.item)
    /\ UNCHANGED dateVars
    /\ UNCHANGED enumVars

\* The element a Ref decoder is applied to: the artist of a name-credit, the
\* label of a label-info, a recording or a release, whose id attribute is
\* well-formed, malformed, missing, or missing while an element below has one.
RefItems == {"ArtistRef", "LabelRef", "RecordingRef", "ReleaseRef"}
RefKinds == IdKinds \cup {"nested"}
RefAttrs(kind, id) == IF kind = "nested" THEN NoAttrs ELSE IdAttr(kind, id)
RefBelow(kind) == IF kind = "nested" THEN ArtistCredit(<<"ok">>) ELSE <<>>
RefElem(item, kind) ==
    CASE item = "ArtistRef" ->
            Elem("name-credit", NoAttrs, <<>>,
                 <<Elem("artist", RefAttrs(kind, MkId("a", 1, 1)), <<>>,
                        <<Leaf("name", MkName("A", 1)), Leaf("sort-name", MkName("a", 1))>>
                        \o RefBelow(kind))>>)
      [] item = "LabelRef" ->
            Elem("label-info", NoAttrs, <<>>,
                 <<Elem("label", RefAttrs(kind, MkId("b", 1, 1)), <<>>,
                        <<Leaf("name", MkName("B", 1)), Leaf("sort-name", MkName("b", 1))>>
                        \o RefBelow(kind))>>)
      [] item = "RecordingRef" ->
            Elem("recording", RefAttrs(kind, MkId("c", 1, 1)), <<>>,
                 <<Leaf("title", MkName("C", 1)), Leaf("length", S_238000)>>
                 \o RefBelow(kind))
      [] item = "ReleaseRef" ->
            Elem("release", RefAttrs(kind, MkId("9", 1, 1)), <<>>,
                 <<Leaf("title", MkName("Z", 1)), Leaf("status", S_Official),
                   Leaf("date", S_1992_09_21), Leaf("country", S_GB)>>
                 \o RefBelow(kind))

RefDocs(item) ==
    { Metadata(<<RefElem(item, kind)>>) : kind \in RefKinds }
    \cup Undisplayed(RefElem(item, "ok"))

\* A Ref decoder's from_xml on the reader of one element of a document.
DecodeRef ==
    /\ call = NoCall
    /\ \E item \in RefItems :
          \E d \in RefDocs(item) :
             /\ call' = [op |-> "Ref", item |-> item, doc |-> d, ord |-> <<>>]
             /\ res' = Item_from_xml(item, XPathNodeReader(d, ElemRef(<<1, 1>>)))
    /\ UNCHANGED dateVars
    /\ UNCHANGED enumVars

\* Area::from_xml on the reader of a document.
DecodeArea ==
    /\ call = NoCall
    /\ \E d \in AreaDocs :
          /\ call' = [op |-> "Area", doc |-> d, ord |-> <<>>]
          /\ res' = Area_from_xml(XPathStrReader(d))
    /\ UNCHANGED dateVars
    /\ UNCHANGED enumVars

\* Artist::from_xml on the reader of a document.
DecodeArtist ==
    /\ call = NoCall
    /\ \E d \in ArtistDocs :
          /\ call' = [op |-> "Artist", doc |-> d, ord |-> <<>>]
          /\ res' = Artist_from_xml(XPathStrReader(d))
    /\ UNCHANGED dateVars
    /\ UNCHANGED enumVars

\* Label::from_xml on the reader of a document; ord is the order in which
\* the alias node-set happens to iterate.
DecodeLabel ==
    /\ call = NoCall
    /\ \E d \in LabelDocs :
          \E ord \in Orders(LabelAliasNodes(XPathStrReader(d))) :
             /\ call' = [op |-> "Label", doc |-> d, ord |-> ord]
             /\ res' = Label_from_xml(XPathStrReader(d), ord)
    /\ UNCHANGED dateVars
    /\ UNCHANGED enumVars

\* Recording::from_xml on the reader of one of the documents; ord is the
\* order in which the name-credit node-set happens to iterate.
DecodeRecordingOf(docs) ==
    /\ call = NoCall
    /\ \E d \in docs :
          \E ord \in Orders(RecordingArtistNodes(XPathStrReader(d))) :
             /\ call' = [op |-> "Recording", doc |-> d, ord |-> ord]
             /\ res' = Recording_from_xml(XPathStrReader(d), ord)
    /\ UNCHANGED dateVars
    /\ UNCHANGED enumVars

DecodeRecording == DecodeRecordingOf(RecordingDocs)
DecodeRecordingLists == DecodeRecordingOf(RecordingListDocs)

\* Release::from_xml on the reader of one of the documents; ord is the
\* order in which the name-credit node-set happens to iterate.
DecodeReleaseOf(docs) ==
    /\ call = NoCall
    /\ \E d \in docs :
          \E ord \in Orders(ReleaseArtistNodes(XPathStrReader(d))) :
             /\ call' = [op |-> "Release", doc |-> d, ord |-> ord]
             /\ res' = Release_from_xml(XPathStrReader(d), ord)
    /\ UNCHANGED dateVars
    /\ UNCHANGED enumVars

DecodeRelease == DecodeReleaseOf(ReleaseDocs)
DecodeReleaseLists == DecodeReleaseOf(ReleaseListDocs)

\* ReleaseGroup::from_xml on the reader of one of the documents; ord is the
\* order in which the secondary-type node-set happens to iterate.
DecodeReleaseGroupOf(docs) ==
    /\ call = NoCall
    /\ \E d \in docs :
          \E ord \in (IF IsOk(ReleaseGroupTypeReader(XPathStrReader(d)))
                       THEN Orders(SecondaryTypeNodes(
                                ReleaseGroupTypeReader(XPathStrReader(d)).val))
                       ELSE {<<>>}) :
             /\ call' = [op |-> "ReleaseGroup", doc |-> d, ord |-> ord]
             /\ res' = ReleaseGroup_from_xml(XPathStrReader(d), ord)
    /\ UNCHANGED dateVars
    /\ UNCHANGED enumVars

DecodeReleaseGroup == DecodeReleaseGroupOf(ReleaseGroupDocs)
DecodeReleaseGroupLists == DecodeReleaseGroupOf(ReleaseGroupListDocs)

\* The entities that are resources, and the mbids get_url is called with.
Resources == {"Area", "Artist", "Label", "Recording", "Release", "ReleaseGroup"}
Mbids == { Uuid_parse_str(MkId(k, 0, i)).val : k \in {"a", "9", "f"}, i \in 1..2 }

\* Res::get_url is called with an mbid.
GetUrl ==
    /\ call = NoCall
    /\ \E Res \in Resources, mbid \in Mbids :
          /\ call' = [op |-> "get_url", Res |-> Res, mbid |-> mbid]
          /\ res' = get_url(Res, mbid)
    /\ UNCHANGED dateVars
    /\ UNCHANGED enumVars

\* Res::get_url is called a second time, with the same or another mbid; the
\* first call and its url are remembered.
GetUrlAgain ==
    /\ call.op = "get_url"
    /\ \E mbid \in Mbids :
          /\ call' = [op |-> "get_url again", Res |-> call.Res, mbid |-> mbid,
                      first |-> [mbid |-> call.mbid, url |-> res]]
          /\ res' = get_url(call.Res, mbid)
    /\ UNCHANGED dateVars
    /\ UNCHANGED enumVars

\* The node-set an entity decoder iterates with nodeset.iter(), and the
\* decoder applied to a reader when the iteration yields the order ord.
IterNodes(Res, reader) ==
    CASE Res = "Label" -> LabelAliasNodes(reader)
      [] Res = "Recording" -> RecordingArtistNodes(reader)
      [] Res = "Release" -> ReleaseArtistNodes(reader)
      [] Res = "ReleaseGroup" ->
            IF IsOk(ReleaseGroupTypeReader(reader))
            THEN SecondaryTypeNodes(ReleaseGroupTypeReader(reader).val)
            ELSE {}
      [] OTHER -> {}

from_xml(Res, reader, ord) ==
    CASE Res = "Area" -> Area_from_xml(reader)
      [] Res = "Artist" -> Artist_from_xml(reader)
      [] Res = "Label" -> Label_from_xml(reader, ord)
      [] Res = "Recording" -> Recording_from_xml(reader, ord)
      [] Res = "Release" -> Release_from_xml(reader, ord)
      [] Res = "ReleaseGroup" -> ReleaseGroup_from_xml(reader, ord)

\* The decoder that was called is called a second time on a reader of the
\* same document; the first result is remembered.
DecodeAgain ==
    /\ call.op \in {"Label", "Recording", "Release", "ReleaseGroup"}
    /\ \E ord \in Orders(IterNodes(call.op, XPathStrReader(call.doc))) :
          /\ call' = [op |-> "again", Res |-> call.op, doc |-> call.doc, ord |-> ord,
                      first |-> [ord |-> call.ord, res |-> res]]
          /\ res' = from_xml(call.op, XPathStrReader(call.doc), ord)
    /\ UNCHANGED dateVars
    /\ UNCHANGED enumVars

\* The texts a response body can be: the text of a document of the entity
\* that lacks none, one or all display strings, and texts that are not
\* well-formed, with the parser's errors.
TextOfDoc(d) == [wf |-> TRUE, doc |-> d]
MalformedTexts ==
    { [wf |-> FALSE, offset |-> 0, errors |-> <<"UnexpectedEof">>],
      [wf |-> FALSE, offset |-> 7, errors |-> <<"MismatchedTag", "UnexpectedEof">>] }
Bodies(Res) ==
    MalformedTexts
    \cup { TextOfDoc(d) : d \in
             CASE Res = "Area" -> Undisplayed(AreaElem("ok", S_City, "text"))
               [] Res = "Artist" -> Undisplayed(ArtistElem(ArtistBase))
               [] Res = "Label" -> Undisplayed(LabelElem(LabelBase))
               [] Res = "Recording" -> Undisplayed(RecordingElem(RecordingBase))
               [] Res = "Release" -> Undisplayed(ReleaseElem(ReleaseBase))
               [] Res = "ReleaseGroup" -> Undisplayed(ReleaseGroupElem(ReleaseGroupBase)) }

\* links { ParseError(ParseError, ParseErrorKind) } of ClientError
FromParseError(r) ==
    The({ IF IsErr(x) THEN Err([kind |-> "ParseError", e |-> x.err]) ELSE x : x \in {r} })

\* Client::get_by_mbid is called: let url = Res::get_url(mbid);
ServiceScheme == <<"h", "t", "t", "p", "s", ":", "/", "/">>

\* ClientConfig.user_agent values.
UserAgents ==
    { <<"a", "p", "p", "/", "1">>, <<"b", "o", "t", "/", "2">> }

\* hyper's Url parser on the text built by get_url: an absolute URL with a
\* scheme parses, anything else is a HyperParserError.
Url_parse(url) ==
    IF Len(url) > Len(ServiceScheme) /\ SubSeq(url, 1, Len(ServiceScheme)) = ServiceScheme
    THEN Ok(url)
    ELSE Err([kind |-> "HyperParserError"])

\* http_client.get(&url[..]).header(UserAgent(self.config.user_agent.clone()))
Request_anonymous(url, config) ==
    [method |-> "GET", url |-> url, user_agent |-> <<>>]

Request(url, config) ==
    [method |-> "GET", url |-> url, user_agent |-> config.user_agent]

GetByMbid ==
    /\ call = NoCall
    /\ \E Res \in Resources, mbid \in Mbids, agent \in UserAgents :
          call' = [op |-> "get_by_mbid", pc |-> "parse_url", Res |-> Res,
                   mbid |-> mbid, config |-> [user_agent |-> agent],
                   url |-> get_url(Res, mbid), steps |-> <<"get_url">>,
                   requests |-> <<>>, body |-> None, reader |-> None,
                   decoded |-> FALSE]
    /\ res' = Pending
    /\ UNCHANGED dateVars
    /\ UNCHANGED enumVars

ParseUrl ==
    /\ call.op = "get_by_mbid"
    /\ call.pc = "parse_url"
    /\ \E url \in {Url_parse(call.url)} :
          IF IsErr(url)
          THEN /\ call' = [call EXCEPT !.pc = "done"]
               /\ res' = url
          ELSE /\ call' = [call EXCEPT !.pc = "get_body"]
               /\ res' = res
    /\ UNCHANGED dateVars
    /\ UNCHANGED enumVars

\* get_body, first half: the request is sent; send()? may fail.
GetBody ==
    /\ call.op = "get_by_mbid"
    /\ call.pc = "get_body"
    /\ \E sent \in {[call EXCEPT
                        !.steps = Append(@, "send"),
                        !.requests = Append(@, Request(call.url, call.config))]} :
          \/ /\ call' = [sent EXCEPT !.pc = "done"]
             /\ res' = Err([kind |-> "HttpError"])
          \/ /\ call' = [sent EXCEPT !.pc = "read"]
             /\ res' = res
    /\ UNCHANGED dateVars
    /\ UNCHANGED enumVars

\* get_body, second half: response.read_to_string(..)? may fail.
ReadToString ==
    /\ call.op = "get_by_mbid"
    /\ call.pc = "read"
    /\ \E read \in {[call EXCEPT !.steps = Append(@, "read")]} :
          \/ /\ call' = [read EXCEPT !.pc = "done"]
             /\ res' = Err([kind |-> "IoError"])
          \/ /\ \E body \in Bodies(call.Res) :
                   call' = [read EXCEPT !.pc = "new", !.body = Some(body)]
             /\ res' = res
    /\ UNCHANGED dateVars
    /\ UNCHANGED enumVars

NewReader ==
    /\ call.op = "get_by_mbid"
    /\ call.pc = "new"
    /\ \E reader \in {XPathStrReader_new(call.body.val)} :
          IF IsErr(reader)
          THEN /\ call' = [call EXCEPT !.pc = "done", !.steps = Append(@, "parse")]
               /\ res' = FromParseError(reader)
          ELSE /\ call' = [call EXCEPT !.pc = "from_xml", !.steps = Append(@, "parse"),
                                       !.reader = Some(reader.val)]
               /\ res' = res
    /\ UNCHANGED dateVars
    /\ UNCHANGED enumVars

\* Ok(Res::from_xml(&reader)?)
FromXml ==
    /\ call.op = "get_by_mbid"
    /\ call.pc = "from_xml"
    /\ \E ord \in Orders(IterNodes(call.Res, call.reader.val)) :
          res' = FromParseError(from_xml(call.Res, call.reader.val, ord))
    /\ call' = [call EXCEPT !.pc = "done", !.decoded = TRUE,
                             !.steps = Append(@, "decode")]
    /\ UNCHANGED dateVars
    /\ UNCHANGED enumVars

\* ------------------------------------------------------------------------
\* Specifications
\* ------------------------------------------------------------------------

\* Date::from_str applied to every input of DateInputs.
InitDate ==
    /\ dateStr \in DateInputs
    /\ dateRes = Pending
    /\ dateVal = NoDate
    /\ acc = NoAcc
    /\ EnumIdle
    /\ XmlIdle

NextDate == ParseDate

SpecDate == InitDate /\ [][NextDate]_vars

\* The accessors applied to every Date of DateValues.
InitAcc ==
    /\ dateStr = <<>>
    /\ dateRes = Pending
    /\ dateVal \in DateValues
    /\ acc = NoAcc
    /\ EnumIdle
    /\ XmlIdle

NextAcc == CallYear \/ CallMonth \/ CallDay

SpecAcc == InitAcc /\ [][NextAcc]_vars

\* Each closed enum's from_str applied to every input of EnumInputs.
InitEnum ==
    /\ enumStr \in EnumInputs
    /\ enumOut = NoEnum
    /\ DateIdle
    /\ XmlIdle

NextEnum ==
    \/ ParseAreaType
    \/ ParseArtistType
    \/ ParseLabelType
    \/ ParseReleaseStatus
    \/ ParseReleaseGroupPrimaryType
    \/ ParseReleaseGroupSecondaryType

SpecEnum == InitEnum /\ [][NextEnum]_vars

\* No call has been made yet.
InitXml ==
    /\ DateIdle
    /\ EnumIdle
    /\ XmlIdle

\* Each entity decoder, Gender::from_str and read_nstring applied to every
\* one of its inputs.
NextEntities ==
    \/ DecodeRelease
    \/ DecodeArea
    \/ DecodeArtist
    \/ DecodeLabel
    \/ DecodeRecording
    \/ DecodeReleaseGroup
    \/ ParseGender
    \/ ReadNString
    \/ DecodeRef
    \/ ReadString

SpecEntities == InitXml /\ [][NextEntities]_vars

\* read_vec and the decoders that read lists applied to the documents whose
\* lists vary.
NextLists ==
    \/ ReadVec
    \/ DecodeRecordingLists
    \/ DecodeReleaseLists
    \/ DecodeReleaseGroupLists

SpecLists == InitXml /\ [][NextLists]_vars

\* get_url called once and a second time.
NextUrl ==
    \/ GetUrl
    \/ GetUrlAgain

SpecUrl == InitXml /\ [][NextUrl]_vars

\* The decoders that iterate a node-set, each called once and a second time
\* on the same document.
NextAgain ==
    \/ DecodeRecordingLists
    \/ DecodeLabel
    \/ DecodeRelease
    \/ DecodeReleaseGroup
    \/ DecodeAgain

SpecAgain == InitXml /\ [][NextAgain]_vars

\* Client::get_by_mbid, step by step.
NextClient ==
    \/ GetByMbid
    \/ ParseUrl
    \/ GetBody
    \/ ReadToString
    \/ NewReader
    \/ FromXml

SpecClient == InitXml /\ [][NextClient]_vars

\* The first reader (entities.rs), whose evaluate unwraps the built XPath.
XpathReader_evaluate(reader, xpath_query) ==
    CASE xpath_query.fn = "malformed" ->
             Err([kind |-> "XmlXpathError", e |-> "Parsing"])
      [] xpath_query.fn = "blank" -> Panic
      [] OTHER -> evaluate(reader, xpath_query)

\* Expressions handed to evaluate: well-formed ones, one with a syntax error
\* and one that builds to no XPath.
EvalExprs ==
    StringExprs
    \cup { Malformed, Blank, Dot,
           CountOf(<<Self, Dos, Child("area")>>),
           StringOf(<<Self, Dos, Child("name"), Text>>) }

EvalDocs == Undisplayed(AreaElem("ok", S_City, "text"))

EvalReaders ==
    { XPathStrReader(d) : d \in EvalDocs }
    \cup { XPathNodeReader(d, ElemRef(<<1, 1>>)) : d \in EvalDocs }

\* Error lists for the conversion of parser errors into a ParseError.
ErrorLists ==
    { <<0, <<>>>>, <<0, <<"UnexpectedEof">>>>,
      <<7, <<"MismatchedTag", "UnexpectedEof">>>> }

Evaluate ==
    /\ call = NoCall
    /\ \E reader \in EvalReaders, e \in EvalExprs :
          /\ call' = [op |-> "evaluate", reader |-> reader, expr |-> e]
          /\ res' = evaluate(reader, e)
    /\ UNCHANGED dateVars
    /\ UNCHANGED enumVars

EvaluateUnwrap ==
    /\ call = NoCall
    /\ \E reader \in EvalReaders, e \in EvalExprs :
          /\ call' = [op |-> "XpathReader::evaluate", reader |-> reader, expr |-> e]
          /\ res' = XpathReader_evaluate(reader, e)
    /\ UNCHANGED dateVars
    /\ UNCHANGED enumVars

ConvertErrors ==
    /\ call = NoCall
    /\ \E err \in ErrorLists :
          /\ call' = [op |-> "ParseError::from", err |-> err]
          /\ res' = ParseError_from(err)
    /\ UNCHANGED dateVars
    /\ UNCHANGED enumVars

NewStrReader ==
    /\ call = NoCall
    /\ \E xml \in Bodies("Area") :
          /\ call' = [op |-> "XPathStrReader::new", xml |-> xml]
          /\ res' = XPathStrReader_new(xml)
    /\ UNCHANGED dateVars
    /\ UNCHANGED enumVars

NextReader ==
    \/ Evaluate
    \/ EvaluateUnwrap
    \/ ConvertErrors
    \/ NewStrReader

SpecReader == InitXml /\ [][NextReader]_vars

\* ------------------------------------------------------------------------
\* Tracks, mediums and label lists decoded through node-scoped readers
\* ------------------------------------------------------------------------

S_1000 == <<"1", "0", "0", "0">>

\* A track element: with or without its own title and length, and with a
\* recording whose length is the track's or another one.
TrackShapes ==
    [title : BOOLEAN, length : BOOLEAN, rec_length : {"same", "other"}]

ShapedTrack(shape, i) ==
    Elem("track", ("id" :> MkId("e", 1, i)), <<>>,
         <<Leaf("position", <<DigitChar(i + 2)>>), Leaf("number", <<DigitChar(i + 2)>>)>>
         \o (IF shape.title THEN <<Leaf("title", MkName("T", i))>> ELSE <<>>)
         \o (IF shape.length THEN <<Leaf("length", S_238000)>> ELSE <<>>)
         \o <<Elem("recording", ("id" :> MkId("c", 1, i)), <<>>,
                   <<Leaf("title", MkName("R", i))>>
                   \o (CASE shape.rec_length = "same" -> <<Leaf("length", S_238000)>>
                         [] shape.rec_length = "other" -> <<Leaf("length", S_1000)>>))>>)

\* A release with one medium, with or without its own position.
MediumDoc(positioned, shapes) ==
    Metadata(<<Elem("release", ("id" :> MkId("9", 0, 1)), <<>>,
        <<Elem("medium-list", NoAttrs, <<>>,
            <<Elem("medium", NoAttrs, <<>>,
                (IF positioned THEN <<Leaf("position", <<"1">>)>> ELSE <<>>)
                \o <<Elem("track-list", NoAttrs, <<>>,
                          [i \in 1..Len(shapes) |-> ShapedTrack(shapes[i], i)])>>)>>)>>)>>)

MediumDocs ==
    { MediumDoc(positioned, shapes) :
        positioned \in BOOLEAN, shapes \in SeqsUpTo(TrackShapes, MaxTracks) }

\* The medium of a MediumDoc and its tracks.
MediumRef == ElemRef(<<1, 1, 1, 1>>)
TrackRefs(d) ==
    document_order(EvalSteps(d, {MediumRef}, <<Child("track-list"), Child("track")>>))

LabelListDocs ==
    { Metadata(<<ReleaseElem([ReleaseBase EXCEPT !.labels = l, !.catno = c])>>) :
        l \in SeqsUpTo(ItemKinds, MaxItems), c \in OptKinds }

DecodeTrack ==
    /\ call = NoCall
    /\ \E d \in MediumDocs :
          \E i \in 1..Len(TrackRefs(d)) :
             /\ call' = [op |-> "ReleaseTrack", doc |-> d, node |-> TrackRefs(d)[i]]
             /\ res' = ReleaseTrack_from_xml(XPathNodeReader(d, TrackRefs(d)[i]))
    /\ UNCHANGED dateVars
    /\ UNCHANGED enumVars

DecodeMedium ==
    /\ call = NoCall
    /\ \E d \in MediumDocs :
          /\ call' = [op |-> "ReleaseMedium", doc |-> d, node |-> MediumRef]
          /\ res' = ReleaseMedium_from_xml(XPathNodeReader(d, MediumRef))
    /\ UNCHANGED dateVars
    /\ UNCHANGED enumVars

DecodeLabels ==
    /\ call = NoCall
    /\ \E d \in LabelListDocs :
          /\ call' = [op |-> "Release::labels", doc |-> d, node |-> ElemRef(<<>>)]
          /\ res' = Release_labels(XPathStrReader(d))
    /\ UNCHANGED dateVars
    /\ UNCHANGED enumVars

NextTracks ==
    \/ DecodeTrack
    \/ DecodeMedium
    \/ DecodeLabels

SpecTracks == InitXml /\ [][NextTracks]_vars

\* ------------------------------------------------------------------------
\* Length texts
\* ------------------------------------------------------------------------

\* A length element: absent, empty, or with a text.
LengthForms ==
    { <<"absent", <<>>>>, <<"empty", <<>>>>, <<"text", S_238000>>, <<"text", S_1000>>,
      <<"text", <<"0">>>>, <<"text", S_abc>>, <<"text", <<"-", "5">>>>,
      <<"text", <<"1", "2", "s">>>> }

RecordingLengthDocs ==
    { Metadata(<<RecordingElem([RecordingBase EXCEPT !.length = l[1], !.length_text = l[2],
                                                    !.disambiguation = d, !.annotation = a])>>) :
        l \in LengthForms, d \in OptKinds, a \in {"absent", "text"} }

RecordingRefLengthDocs ==
    { Metadata(<<Elem("recording", IdAttr(id, MkId("c", 1, 1)), <<>>,
                      <<Leaf("title", MkName("C", 1))>> \o Opt("length", l[1], l[2]))>>) :
        l \in LengthForms, id \in {"ok", "bad"} }

TrackLengthDocs ==
    { Metadata(<<Elem("track", ("id" :> MkId("e", 1, 1)), <<>>,
                      <<Leaf("position", <<"1">>), Leaf("number", <<"1">>),
                        Leaf("title", MkName("T", 1))>>
                      \o Opt("length", l[1], l[2])
                      \o <<Elem("recording", ("id" :> MkId("c", 1, 1)), <<>>,
                                <<Leaf("title", MkName("R", 1))>>
                                \o Opt("length", r[1], r[2]))>>)>>) :
        l \in LengthForms, r \in LengthForms }

DecodeRecordingLength == DecodeRecordingOf(RecordingLengthDocs)

DecodeRecordingRefLength ==
    /\ call = NoCall
    /\ \E d \in RecordingRefLengthDocs :
          /\ call' = [op |-> "RecordingRef", doc |-> d, ord |-> <<>>]
          /\ res' = RecordingRef_from_xml(XPathNodeReader(d, ElemRef(<<1, 1>>)))
    /\ UNCHANGED dateVars
    /\ UNCHANGED enumVars

DecodeTrackLength ==
    /\ call = NoCall
    /\ \E d \in TrackLengthDocs :
          /\ call' = [op |-> "ReleaseTrack", doc |-> d, node |-> ElemRef(<<1, 1>>)]
          /\ res' = ReleaseTrack_from_xml(XPathNodeReader(d, ElemRef(<<1, 1>>)))
    /\ UNCHANGED dateVars
    /\ UNCHANGED enumVars

NextDuration ==
    \/ DecodeRecordingLength
    \/ DecodeRecordingRefLength
    \/ DecodeTrackLength

SpecDuration == InitXml /\ [][NextDuration]_vars

\* ------------------------------------------------------------------------
\* Entities with and without a type attribute
\* ------------------------------------------------------------------------

TypedLabelDocs ==
    { Metadata(<<LabelElem([LabelBase EXCEPT !.id = id, !.type = type,
                                            !.disambiguation = d, !.country = y])>>) :
        id \in IdKinds, type \in {S_Original_Production, S_ProductionOriginal, <<>>},
        d \in OptKinds, y \in {"absent", "text"} }

DecodeLabelTypes ==
    /\ call = NoCall
    /\ \E d \in TypedLabelDocs :
          \E ord \in Orders(LabelAliasNodes(XPathStrReader(d))) :
             /\ call' = [op |-> "Label", doc |-> d, ord |-> ord]
             /\ res' = Label_from_xml(XPathStrReader(d), ord)
    /\ UNCHANGED dateVars
    /\ UNCHANGED enumVars

NextTypes ==
    \/ DecodeArea
    \/ DecodeArtist
    \/ DecodeLabelTypes
    \/ DecodeReleaseGroup

SpecTypes == InitXml /\ [][NextTypes]_vars

\* ------------------------------------------------------------------------
\* Search (client/search)
\* ------------------------------------------------------------------------

\* Number of add calls made on one builder.
MaxAdds == 2

\* Values of the string-valued search fields.
FieldTexts == { <<"a">>, <<"a", " ", "b">>, <<"?", "%">>, <<>> }

\* Search fields of a release group: the field type and its value.
SearchFields ==
    { [type |-> "ArtistName", value |-> v] : v \in FieldTexts }
    \cup { [type |-> "Tag", value |-> v] : v \in {<<"a">>, <<"#", "1">>} }
    \cup { [type |-> "ReleaseGroupId", value |-> Uuid_parse_str(MkId("d", 0, 1)).val] }

\* define_entity_fields!: $field_trait::name()
Field_name(field) ==
    CASE field.type = "ArtistName" -> <<"a", "r", "t", "i", "s", "t", "n", "a", "m", "e">>
      [] field.type = "Tag" -> <<"t", "a", "g">>
      [] field.type = "ReleaseGroupId" -> <<"r", "g", "i", "d">>

\* define_fields!: self.0.to_string(); an Mbid displays hyphenated.
Field_to_string(field) ==
    IF field.type = "ReleaseGroupId" THEN hyphenated(field.value) ELSE field.value

\* The characters of DEFAULT_ENCODE_SET that occur in the inputs, with their
\* percent-encoded form.
DefaultEncoded ==
    (" " :> <<"%", "2", "0">>) @@ ("#" :> <<"%", "2", "3">>)
    @@ ("?" :> <<"%", "3", "F">>) @@ ("<" :> <<"%", "3", "C">>)
    @@ (">" :> <<"%", "3", "E">>)
    @@ ("{" :> <<"%", "7", "B">>) @@ ("}" :> <<"%", "7", "D">>)

utf8_percent_encode(input) ==
    Flatten([i \in 1..Len(input) |->
                IF input[i] \in DOMAIN DefaultEncoded THEN DefaultEncoded[input[i]]
                ELSE <<input[i]>>])

RECURSIVE join(_, _)
join(parts, sep) ==
    IF parts = <<>> THEN <<>>
    ELSE IF Len(parts) = 1 THEN parts[1]
    ELSE parts[1] \o sep \o join(Tail(parts), sep)

\* FE::base_url() of the full release group.
ReleaseGroup_base_url ==
    <<"h", "t", "t", "p", "s", ":", "/", "/", "m", "u", "s", "i", "c", "b", "r", "a", "i", "n", "z", ".", "o", "r">>
    \o <<"g", "/", "w", "s", "/", "2", "/", "r", "e", "l", "e", "a", "s", "e", "-", "g", "r", "o", "u", "p", "/">>

\* $builder::new
SearchBuilder_new == [params |-> <<>>]

\* $builder::add
SearchBuilder_add_replace(builder, field) ==
    [builder EXCEPT !.params =
        SelectSeq(@, LAMBDA p : p[1] # Field_name(field))
        \o << <<Field_name(field), Field_to_string(field)>> >>]

SearchBuilder_add(builder, field) ==
    [builder EXCEPT !.params = Append(@, <<Field_name(field), Field_to_string(field)>>)]

\* $builder::build_url
build_url(builder) ==
    The({ Url_parse(ReleaseGroup_base_url \o <<"?", "q", "u", "e", "r", "y", "=">>
                    \o join(query_parts, <<"%", "2", "0", "A", "N", "D", "%", "2", "0">>)) :
          query_parts \in {[i \in 1..Len(builder.params) |->
              builder.params[i][1] \o <<":">>
              \o utf8_percent_encode(builder.params[i][2])]} })

\* client::search::entities::ReleaseGroup::from_xml
SearchReleaseGroup_from_xml(reader) ==
    Struct(<<
        <<"mbid", read_mbid(reader, Path(<<Self, Dos, Attr("id")>>))>>,
        <<"title", read_string(reader, Desc(<<"title">>, <<>>))>>,
        <<"artists", read_vec(reader,
            Desc(<<"artist-credit", "name-credit", "artist">>, <<>>), "ArtistRef")>>,
        <<"releases", read_vec(reader,
            Desc(<<"release-list", "release">>, <<>>), "ReleaseRef")>> >>)

\* impl FromXml for SearchEntry<$entity>, with $list_tag = release-group-list
SearchEntry_from_xml(reader) ==
    Struct(<<
        <<"entity",
          The({ IF IsErr(rel) THEN rel ELSE SearchReleaseGroup_from_xml(rel.val) :
                rel \in {relative_reader(reader, Desc(<<"release-group-list">>, <<>>))} })>>,
        <<"score", read_uint(reader,
            Desc(<<"release-group-list">>, <<Attr("count")>>), U8Max)>> >>)

\* reader.read_vec("//mb:metadata")
read_entries(reader) ==
    The({ IF IsErr(v) THEN v
          ELSE The({ Collect([i \in 1..Len(nodes) |->
                        SearchEntry_from_xml(XPathNodeReader(reader.doc, nodes[i]))]) :
                     nodes \in {document_order(v.val.nodes)} }) :
          v \in {evaluate(reader, Path(<<Dos, Child("metadata")>>))} })

\* SearchBuilder::search once the response body (or the transport failure)
\* is known.
search(builder, response) ==
    The({ IF IsErr(url) THEN url
          ELSE IF IsErr(response) THEN response
          ELSE The({ IF IsErr(reader) THEN FromParseError(reader)
                     ELSE FromParseError(read_entries(reader.val)) :
                     reader \in {XPathStrReader_new(response.val)} }) :
          url \in {build_url(builder)} })

\* Search responses: a release-group-list with its count attribute and one
\* or two release groups, each with its own score.
ListCounts == { <<"1">>, <<"2">>, <<"2", "5", "0">>, <<"3", "0", "0">> }
EntryScores == { <<"1", "0", "0">>, <<"8", "0">> }

ScoredGroup(score) ==
    [ReleaseGroupElem(ReleaseGroupBase) EXCEPT !.attrs = ("ext:score" :> score) @@ @]

SearchDocs ==
    { Metadata(<<Elem("release-group-list",
                      ("count" :> c) @@ ("offset" :> <<"0">>), <<>>,
                      [i \in 1..Len(scores) |-> ScoredGroup(scores[i])])>>) :
        c \in ListCounts, scores \in SeqsUpTo(EntryScores, 2) \ {<<>>} }

Responses ==
    { Err([kind |-> "HttpError"]), Err([kind |-> "IoError"]) }
    \cup { Ok(xml) : xml \in MalformedTexts }
    \cup { Ok(TextOfDoc(d)) : d \in SearchDocs }

NewBuilder ==
    /\ call = NoCall
    /\ call' = [op |-> "builder", builder |-> SearchBuilder_new, added |-> <<>>]
    /\ res' = res
    /\ UNCHANGED dateVars
    /\ UNCHANGED enumVars

Add ==
    /\ call.op = "builder"
    /\ Len(call.added) < MaxAdds
    /\ \E field \in SearchFields :
          call' = [call EXCEPT !.builder = SearchBuilder_add(@, field),
                               !.added = Append(@, field)]
    /\ res' = res
    /\ UNCHANGED dateVars
    /\ UNCHANGED enumVars

BuildUrl ==
    /\ call.op = "builder"
    /\ call' = [call EXCEPT !.op = "build_url"]
    /\ res' = build_url(call.builder)
    /\ UNCHANGED dateVars
    /\ UNCHANGED enumVars

Search ==
    /\ call.op = "builder"
    /\ \E response \in Responses :
          /\ call' = [op |-> "search", builder |-> call.builder, added |-> call.added,
                      response |-> response]
          /\ res' = search(call.builder, response)
    /\ UNCHANGED dateVars
    /\ UNCHANGED enumVars

NextSearch ==
    \/ NewBuilder
    \/ Add
    \/ BuildUrl
    \/ Search

SpecSearch == InitXml /\ [][NextSearch]_vars

\* ------------------------------------------------------------------------
\* Properties of Date::from_str and the accessors
\* ------------------------------------------------------------------------

\* The components of a string, counted and cut at its '-' characters.
DashesBefore(s, i) == Cardinality({ j \in 1..(i - 1) : s[j] = "-" })
NumComps(s) == DashesBefore(s, Len(s) + 1) + 1
CompOf(s, k) ==
    LET idx == { i \in 1..Len(s) : s[i] # "-" /\ DashesBefore(s, i) = k - 1 }
        lo == CHOOSE i \in idx : \A j \in idx : i <= j
    IN  IF idx = {} THEN <<>> ELSE SubSeq(s, lo, lo + Cardinality(idx) - 1)

\* The decimal value of a digit string, by position.
RECURSIVE DecVal(_)
DecVal(d) ==
    IF d = <<>> THEN 0
    ELSE DecVal(SubSeq(d, 1, Len(d) - 1)) * 10 + DigitVal(d[Len(d)])

Unsigned(c) == IF c # <<>> /\ c[1] = "+" THEN Tail(c) ELSE c
IsUInt(c, max) ==
    /\ Unsigned(c) # <<>>
    /\ \A i \in 1..Len(Unsigned(c)) : Unsigned(c)[i] \in Digits
    /\ DecVal(Unsigned(c)) <= max
NumVal(c) == DecVal(Unsigned(c))

\* The range of the k-th component: the year is a u16, month and day are u8.
CompMax(k) == IF k = 1 THEN U16Max ELSE U8Max
AllCompsValid(s) == \A k \in 1..NumComps(s) : IsUInt(CompOf(s, k), CompMax(k))

S_2017_04_15 == <<"2", "0", "1", "7", "-", "0", "4", "-", "1", "5">>
S_1_1_1_1 == <<"1", "-", "1", "-", "1", "-", "1">>
S_dash_abc == <<"-", "a", "b", "c">>

\* C1: a string of 1, 2 or 3 components that are all unsigned integers in
\* range parses to Year, Month or Day respectively, the variant fixed by the
\* number of components and each field the numeric value of its component.
C1_ParseValid ==
    (dateRes # Pending /\ NumComps(dateStr) \in 1..3 /\ AllCompsValid(dateStr)) =>
        LET n == NumComps(dateStr)
            v(k) == NumVal(CompOf(dateStr, k))
        IN  CASE n = 1 -> dateRes = Ok(DateYear(v(1)))
              [] n = 2 -> dateRes = Ok(DateMonth(v(1), v(2)))
              [] n = 3 -> dateRes = Ok(DateDay(v(1), v(2), v(3)))

C1_Witness ==
    /\ dateStr = S_2017_04_15
    /\ dateRes = Ok(DateDay(2017, 4, 15))

\* C2: a string of four or more components is rejected with
\* WrongNumberOfComponents carrying the number of components, whatever the
\* components are; no date is returned.
C2_WrongCount ==
    (dateRes # Pending /\ NumComps(dateStr) >= 4) =>
        dateRes = Err(WrongNumberOfComponents(NumComps(dateStr)))

C2_Witness ==
    /\ dateStr = S_1_1_1_1
    /\ dateRes = Err(WrongNumberOfComponents(4))

\* C3: a string of 1, 2 or 3 components of which one is not an unsigned
\* integer in range is rejected with ComponentInvalid carrying the parse
\* error of the leftmost such component.
C3_ComponentInvalid ==
    (dateRes # Pending /\ NumComps(dateStr) \in 1..3 /\ ~AllCompsValid(dateStr)) =>
        LET bad == { k \in 1..NumComps(dateStr) :
                        ~IsUInt(CompOf(dateStr, k), CompMax(k)) }
            first == CHOOSE k \in bad : \A j \in bad : k <= j
        IN  dateRes =
                Err(ComponentInvalid(ParseUInt(CompOf(dateStr, first), CompMax(first)).err))

C3_Witness ==
    /\ dateStr = S_dash_abc
    /\ dateRes = Err(ComponentInvalid("Empty"))

\* C4: year() returns the stored year; month() the stored month of a Month
\* or Day and 0 for a Year; day() the stored day of a Day and 0 otherwise.
C4_Accessors ==
    /\ "year" \in DOMAIN acc => acc["year"] = dateVal.year
    /\ "month" \in DOMAIN acc =>
          acc["month"] = IF dateVal.variant \in {"Month", "Day"} THEN dateVal.month ELSE 0
    /\ "day" \in DOMAIN acc =>
          acc["day"] = IF dateVal.variant = "Day" THEN dateVal.day ELSE 0

C4_Witness ==
    /\ dateVal = DateMonth(2017, 4)
    /\ DOMAIN acc = {"year", "month", "day"}
    /\ acc["year"] = 2017 /\ acc["month"] = 4 /\ acc["day"] = 0

\* ------------------------------------------------------------------------
\* Properties of the closed enums
\* ------------------------------------------------------------------------


\* C5: from_str of a closed enum maps each literal of its vocabulary to its
\* own variant, no two literals to the same one, and rejects every other
\* string with InvalidData.
C5_ClosedEnums ==
    enumOut # NoEnum =>
        LET hit == { e \in Vocabulary : e[1] = enumOut.enum /\ e[2] = enumStr }
            rest == { e \in Vocabulary : e[1] = enumOut.enum /\ e[2] # enumStr }
        IN  /\ \A e \in hit : enumOut.res = Ok(Variant(e[1], e[3]))
            /\ hit # {} => \A e \in rest : Enum_from_str(e[1], e[2]) # enumOut.res
            /\ hit = {} => /\ IsErr(enumOut.res)
                           /\ enumOut.res.err.kind = "InvalidData"

C5_Witness ==
    /\ enumStr = S_Original_Production
    /\ enumOut = [enum |-> "LabelType", res |-> Ok(Variant("LabelType", "ProductionOriginal"))]

\* ------------------------------------------------------------------------
\* Properties of the entity decoders
\* ------------------------------------------------------------------------

\* The indices of the children of n with the given name, ascending.
IdxNamed(n, name) ==
    SelectSeq([i \in 1..Len(n.kids) |-> i], LAMBDA i : n.kids[i].name = name)

\* The paths of the elements reached from the element n at path p through
\* children with the given names, in document order.
RECURSIVE PathsAt(_, _, _)
PathsAt(n, p, names) ==
    IF names = <<>> THEN <<p>>
    ELSE LET idx == IdxNamed(n, Head(names))
         IN  Flatten([k \in 1..Len(idx) |->
                 PathsAt(n.kids[idx[k]], Append(p, idx[k]), Tail(names))])

\* The text of the first element of a document at the given names, and the
\* empty string if there is none.
ElemText(d, names) ==
    LET ps == PathsAt(d, <<>>, names)
    IN  IF ps = <<>> THEN <<>> ELSE NodeAt(d, ps[1]).text

\* The gender the text s stands for.
GenderOf(s) ==
    CASE s = S_Female -> Some([variant |-> "Female"])
      [] s = S_Male -> Some([variant |-> "Male"])
      [] s = <<>> -> None
      [] OTHER -> Some([variant |-> "Other", s |-> s])

\* The artist document d with its gender element taken out.
WithoutGender(d) ==
    LET artist == d.kids[1].kids[1]
    IN  Metadata(<<[artist EXCEPT !.kids = SelectSeq(@, LAMBDA k : k.name # "gender")]>>)

\* C6: Gender::from_str gives Some(Female) for "Female", Some(Male) for
\* "Male", None for the empty string and Some(Other(s)) for any other s; an
\* artist that decodes carries the gender of its gender text, and an artist
\* that is rejected is rejected in the same way without its gender element.
C6_GenderNeverFails ==
    /\ call.op = "Gender" => res = GenderOf(call.s)
    /\ call.op = "Artist" =>
          /\ IsOk(res) =>
                res.val.gender = GenderOf(ElemText(call.doc, <<"metadata", "artist", "gender">>))
          /\ IsErr(res) => res = Artist_from_xml(XPathStrReader(WithoutGender(call.doc)))

C6_Witness ==
    /\ call.op = "Artist"
    /\ ElemText(call.doc, <<"metadata", "artist", "gender">>) = S_Non_binary
    /\ IsOk(res)
    /\ res.val.gender = Some([variant |-> "Other", s |-> S_Non_binary])

\* The optional string fields of each entity and the element each is read
\* from.
OptFields(op) ==
    CASE op = "Area" ->
            { <<"iso_3166", <<"area", "iso-3166-1-code-list", "iso-3166-1-code">> >> }
      [] op = "Artist" ->
            { <<"ipi_code", <<"artist", "ipi">> >>,
              <<"isni_code", <<"artist", "isni-list", "isni">> >> }
      [] op = "Label" ->
            { <<"disambiguation", <<"label", "disambiguation">> >>,
              <<"label_code", <<"label", "label-code">> >>,
              <<"country", <<"label", "country">> >> }
      [] op = "Recording" ->
            { <<"disambiguation", <<"recording", "disambiguation">> >>,
              <<"annotation", <<"recording", "annotation">> >> }
      [] op = "Release" ->
            { <<"barcode", <<"release", "barcode">> >>,
              <<"packaging", <<"release", "packaging">> >>,
              <<"disambiguation", <<"release", "disambiguation">> >> }
      [] op = "ReleaseGroup" ->
            { <<"disambiguation", <<"release-group", "disambiguation">> >>,
              <<"annotation", <<"release-group", "annotation">> >> }
      [] OTHER -> {}

\* The other fields of an entity that hold an optional string.
MoreOptFields(op) ==
    CASE op = "Release" -> {"catalogue_number"}
      [] op = "Recording" -> {"isrc_code"}
      [] op = "Label" -> {"ipi_code", "isni_code"}
      [] OTHER -> {}

\* The element names an expression ".//mb:a/mb:b/text()" goes through.
ExprNames(e) ==
    LET cs == SelectSeq(e.steps, LAMBDA st : st.axis = "child")
    IN  [i \in 1..Len(cs) |-> cs[i].name]

\* The optional string read from the element at the given names of d.
OptOf(d, names) ==
    IF ElemText(d, <<"metadata">> \o names) = <<>> THEN None
    ELSE Some(ElemText(d, <<"metadata">> \o names))

\* C7: an optional string field is None when its element is absent or has
\* no text and Some(s) with the non-empty text s otherwise, in read_nstring
\* and in every entity decoder; no decoder produces Some("").
C7_OptionalStrings ==
    /\ call.op = "read_nstring" => res = Ok(OptOf(call.doc, ExprNames(call.expr)))
    /\ IsOk(res) =>
          /\ \A f \in OptFields(call.op) :
                /\ res.val[f[1]] = OptOf(call.doc, f[2])
                /\ res.val[f[1]] # Some(<<>>)
          /\ \A f \in MoreOptFields(call.op) : res.val[f] # Some(<<>>)
          /\ call.op = "Artist" => res.val.area.val.iso_3166 # Some(<<>>)

C7_Witness ==
    /\ call.op = "Area"
    /\ PathsAt(call.doc, <<>>,
               <<"metadata", "area", "iso-3166-1-code-list", "iso-3166-1-code">>) # <<>>
    /\ ElemText(call.doc,
                <<"metadata", "area", "iso-3166-1-code-list", "iso-3166-1-code">>) = <<>>
    /\ IsOk(res)
    /\ res.val.iso_3166 = None

\* ------------------------------------------------------------------------
\* Properties of the list reads
\* ------------------------------------------------------------------------

\* The nodes ".//mb:a/mb:b" or ".//mb:a/mb:b/text()" selects in d, in
\* document order.
MatchedRefs(d, e) ==
    LET ps == PathsAt(d, <<>>, <<"metadata">> \o ExprNames(e))
    IN  IF e.steps[Len(e.steps)].axis = "text"
        THEN LET ts == SelectSeq(ps, LAMBDA p : NodeAt(d, p).text # <<>>)
             IN  [i \in 1..Len(ts) |-> TextRef(ts[i])]
        ELSE [i \in 1..Len(ps) |-> ElemRef(ps[i])]

\* The elements of d at the given names, in document order.
ElemRefs(d, names) ==
    LET ps == PathsAt(d, <<>>, names)
    IN  [i \in 1..Len(ps) |-> ElemRef(ps[i])]

\* The decoder of the nodes of each list.
Node_from_xml(item, reader) ==
    CASE item = "ReleaseTrack" -> ReleaseTrack_from_xml(reader)
      [] item = "ReleaseMedium" -> ReleaseMedium_from_xml(reader)
      [] OTHER -> Item_from_xml(item, reader)

\* The decoding of each node of a sequence.
DecodeEach(d, refs, item) ==
    [i \in 1..Len(refs) |-> Node_from_xml(item, XPathNodeReader(d, refs[i]))]

ItemsOf(d, refs, item) ==
    [i \in 1..Len(refs) |-> Item_from_xml(item, XPathNodeReader(d, refs[i]))]

AllOk(rs) == \A i \in 1..Len(rs) : IsOk(rs[i])
Vals(rs) == [i \in 1..Len(rs) |-> rs[i].val]

\* The first error of a sequence of results that has one.
FirstErr(rs) == rs[CHOOSE i \in 1..Len(rs) : IsErr(rs[i]) /\ \A j \in 1..(i - 1) : IsOk(rs[j])]

\* The releases and the artists of a release group document.
GroupReleases(d) ==
    ItemsOf(d, ElemRefs(d, <<"metadata", "release-group", "release-list", "release">>),
            "ReleaseRef")
GroupArtists(d) ==
    ItemsOf(d, ElemRefs(d, <<"metadata", "release-group", "artist-credit", "name-credit",
                            "artist">>), "ArtistRef")

\* C8: read_vec of an expression that selects N nodes, all of which decode,
\* returns the N decodings in the document order of the nodes; of an
\* expression that selects no node, or evaluates to something that is no
\* node-set, it returns Ok of the empty list.
C8_ReadVecInOrder ==
    /\ call.op = "read_vec" =>
          LET refs == MatchedRefs(call.doc, call.expr)
              items == ItemsOf(call.doc, refs, call.item)
          IN  /\ (call.expr.fn = "path" /\ AllOk(items)) =>
                    /\ IsOk(res)
                    /\ Len(res.val) = Len(refs)
                    /\ \A i \in 1..Len(refs) : res.val[i] = items[i].val
              /\ (call.expr.fn # "path" \/ refs = <<>>) => res = Ok(<<>>)
    /\ (call.op = "ReleaseGroup" /\ IsOk(res)) =>
          /\ res.val.releases = Vals(GroupReleases(call.doc))
          /\ res.val.artists = Vals(GroupArtists(call.doc))

C8_Witness ==
    /\ call.op = "read_vec"
    /\ call.item = "ReleaseRef"
    /\ call.expr.fn = "path"
    /\ IsOk(res)
    /\ Len(res.val) = 2
    /\ res.val[1].title = MkName("Z", 1)
    /\ res.val[2].title = MkName("Z", 2)

\* The nodes of the lists of a release document, and their decodings.
ReleaseArtistRefs(d) ==
    ElemRefs(d, <<"metadata", "release", "artist-credit", "name-credit">>)
ReleaseLabelRefs(d) ==
    ElemRefs(d, <<"metadata", "release", "label-info-list", "label-info">>)
ReleaseMediumRefs(d) ==
    ElemRefs(d, <<"metadata", "release", "medium-list", "medium">>)
ReleaseTrackRefs(d) ==
    ElemRefs(d, <<"metadata", "release", "medium-list", "medium", "track-list", "track">>)

\* The tracks of the medium m, a node of d.
MediumTrackRefs(d, m) ==
    LET ps == PathsAt(NodeAt(d, m.path), m.path, <<"track-list", "track">>)
    IN  [i \in 1..Len(ps) |-> ElemRef(ps[i])]

\* The name-credit nodes in the order the call iterated them.
IsOrderOf(ord, refs) ==
    /\ Len(ord) = Len(refs)
    /\ { ord[i] : i \in 1..Len(ord) } = { refs[i] : i \in 1..Len(refs) }

\* The decodings of the nodes of a release's lists, in the order
\* Release::from_xml reads them.
ReleaseItems(d, ord) ==
    DecodeEach(d, ord, "ArtistRef")
    \o DecodeEach(d, ReleaseLabelRefs(d), "LabelRef")
    \o DecodeEach(d, ReleaseMediumRefs(d), "ReleaseMedium")

\* The id attribute of the top-level entity element of d is well-formed.
TopIdOk(d) ==
    LET top == d.kids[1].kids[1]
    IN  "id" \in DOMAIN top.attrs /\ IsOk(Uuid_parse_str(top.attrs["id"]))

\* C9: when the decoder of a node of a list fails, read_vec returns the
\* error of the first failing node in document order and nothing else; a
\* release returns the error of the first failing node among its artists (in
\* iteration order), its labels and its mediums, a medium that of its first
\* failing track; a recording and a release group return an error, which is
\* that of the first failing node when the entity's id is well-formed.
C9_FailFast ==
    /\ call.op = "read_vec" =>
          LET items == ItemsOf(call.doc, MatchedRefs(call.doc, call.expr), call.item)
          IN  (call.expr.fn = "path" /\ ~AllOk(items)) => res = FirstErr(items)
    /\ call.op = "Release" =>
          LET items == ReleaseItems(call.doc, call.ord)
          IN  /\ IsOrderOf(call.ord, ReleaseArtistRefs(call.doc))
              /\ ~AllOk(items) => res = FirstErr(items)
              /\ \A i \in 1..Len(ReleaseMediumRefs(call.doc)) :
                    LET m == ReleaseMediumRefs(call.doc)[i]
                        tracks == DecodeEach(call.doc, MediumTrackRefs(call.doc, m),
                                             "ReleaseTrack")
                    IN  ~AllOk(tracks) =>
                            ReleaseMedium_from_xml(XPathNodeReader(call.doc, m))
                                = FirstErr(tracks)
    /\ call.op = "Recording" =>
          LET items == DecodeEach(call.doc, call.ord, "ArtistRef")
          IN  /\ IsOrderOf(call.ord,
                    ElemRefs(call.doc, <<"metadata", "recording", "artist-credit",
                                         "name-credit">>))
              /\ ~AllOk(items) =>
                    /\ IsErr(res)
                    /\ TopIdOk(call.doc) => res = FirstErr(items)
    /\ call.op = "ReleaseGroup" =>
          LET items == GroupReleases(call.doc) \o GroupArtists(call.doc)
          IN  ~AllOk(items) =>
                 /\ IsErr(res)
                 /\ TopIdOk(call.doc) => res = FirstErr(items)

C9_Witness ==
    /\ call.op = "Release"
    /\ Len(ReleaseMediumRefs(call.doc)) = 2
    /\ IsOk(ReleaseMedium_from_xml(XPathNodeReader(call.doc, ReleaseMediumRefs(call.doc)[1])))
    /\ LET tracks == DecodeEach(call.doc,
                        MediumTrackRefs(call.doc, ReleaseMediumRefs(call.doc)[2]),
                        "ReleaseTrack")
       IN  /\ Len(tracks) = 2
           /\ IsOk(tracks[1])
           /\ IsErr(tracks[2])
           /\ res = tracks[2]

\* The tracks of a release document that have no recording element.
NoRecTracks(d) ==
    SelectSeq(ReleaseTrackRefs(d),
              LAMBDA t : \A i \in 1..Len(NodeAt(d, t.path).kids) :
                            NodeAt(d, t.path).kids[i].name # "recording")

\* The text of the first child of n with the given name.
KidText(n, name) == n.kids[IdxNamed(n, name)[1]].text

\* Nothing that Release::from_xml reads before the recording of the track t
\* fails: the artists, the labels, the tracks before t, and the id, position,
\* number and length of t.
NothingFailsBefore(d, t) ==
    LET n == NodeAt(d, t.path)
        before == SelectSeq(ReleaseTrackRefs(d), LAMBDA u : Before(u, t))
    IN  /\ AllOk(DecodeEach(d, ReleaseArtistRefs(d), "ArtistRef"))
        /\ AllOk(DecodeEach(d, ReleaseLabelRefs(d), "LabelRef"))
        /\ AllOk(DecodeEach(d, before, "ReleaseTrack"))
        /\ IsOk(Uuid_parse_str(n.attrs["id"]))
        /\ IsOk(ParseUInt(KidText(n, "position"), U16Max))
        /\ IsOk(ParseUInt(KidText(n, "number"), U16Max))
        /\ IsOk(ParseU64(KidText(n, "length")))

\* C10 as stated: a release with a track that has no recording is rejected
\* with InvalidData("ReleaseTrack without RecordingRef").
C10_AlwaysInvalidData ==
    (call.op = "Release" /\ NoRecTracks(call.doc) # <<>>) =>
        /\ IsErr(res)
        /\ res.err.kind = "InvalidData"
        /\ res.err.what = "ReleaseTrack without RecordingRef"

\* C10, amended: a release with a track that has no recording is rejected;
\* the error is InvalidData("ReleaseTrack without RecordingRef") with the id
\* of the first such track when nothing read before its recording fails.
C10_TrackWithoutRecording ==
    (call.op = "Release" /\ NoRecTracks(call.doc) # <<>>) =>
        LET t == NoRecTracks(call.doc)[1]
        IN  /\ IsErr(res)
            /\ NothingFailsBefore(call.doc, t) =>
                  res = Err(InvalidData("ReleaseTrack without RecordingRef",
                            Uuid_parse_str(NodeAt(call.doc, t.path).attrs["id"]).val))

C10_Witness ==
    /\ call.op = "Release"
    /\ Len(NoRecTracks(call.doc)) = 1
    /\ Len(ReleaseTrackRefs(call.doc)) = 4
    /\ NoRecTracks(call.doc)[1] = ReleaseTrackRefs(call.doc)[4]
    /\ NothingFailsBefore(call.doc, NoRecTracks(call.doc)[1])
    /\ res = Err(InvalidData("ReleaseTrack without RecordingRef",
                           Uuid_parse_str(MkId("e", 2, 2)).val))

\* ------------------------------------------------------------------------
\* Properties of the release decoder
\* ------------------------------------------------------------------------

\* The number the text of the child of n with the given name stands for.
PosOf(n, name) == ParseUInt(KidText(n, name), U16Max).val

\* The numbers of a sequence grow from each element to the next.
Increasing(ns) == \A i \in 1..(Len(ns) - 1) : ns[i] < ns[i + 1]

\* C11: a release that decodes has one medium per medium element and, in
\* each, one track per track element, in document order and not re-sorted:
\* tracks[i] carries the id, title, position and number of the i-th track
\* element and mediums[j] the position of the j-th medium element, so
\* positions and numbers that grow along the document grow along the lists.
C11_TrackOrder ==
    (call.op = "Release" /\ IsOk(res)) =>
        LET ms == ReleaseMediumRefs(call.doc)
        IN  /\ Len(res.val.mediums) = Len(ms)
            /\ \A j \in 1..Len(ms) :
                  LET ts == MediumTrackRefs(call.doc, ms[j])
                      tracks == res.val.mediums[j].tracks
                  IN  /\ res.val.mediums[j].position
                            = PosOf(NodeAt(call.doc, ms[j].path), "position")
                      /\ Len(tracks) = Len(ts)
                      /\ \A i \in 1..Len(ts) :
                            LET n == NodeAt(call.doc, ts[i].path)
                            IN  /\ tracks[i].mbid = Uuid_parse_str(n.attrs["id"]).val
                                /\ tracks[i].title = KidText(n, "title")
                                /\ tracks[i].position = PosOf(n, "position")
                                /\ tracks[i].number = PosOf(n, "number")
                      /\ Increasing([i \in 1..Len(ts) |->
                                        PosOf(NodeAt(call.doc, ts[i].path), "position")])
                            => /\ Increasing([i \in 1..Len(tracks) |-> tracks[i].position])
                               /\ Increasing([i \in 1..Len(tracks) |-> tracks[i].number])
            /\ Increasing([j \in 1..Len(ms) |-> res.val.mediums[j].position])

C11_Witness ==
    /\ call.op = "Release"
    /\ IsOk(res)
    /\ Len(res.val.mediums) = 2
    /\ Len(res.val.mediums[2].tracks) = 2
    /\ res.val.mediums[2].tracks[1].mbid = Uuid_parse_str(MkId("e", 2, 1)).val
    /\ res.val.mediums[2].tracks[2].mbid = Uuid_parse_str(MkId("e", 2, 2)).val
    /\ res.val.mediums[2].tracks[1].position = 1
    /\ res.val.mediums[2].tracks[2].position = 2

\* ------------------------------------------------------------------------
\* Properties of the area decoder
\* ------------------------------------------------------------------------

\* The top-level entity element of a document.
TopElem(d) == d.kids[1].kids[1]

\* The literal s belongs to the vocabulary of the enum.
InVocabulary(enum, s) == \E t \in Vocabulary : t[1] = enum /\ t[2] = s

\* The variant the literal s of the vocabulary stands for.
VariantOf(enum, s) ==
    Variant(enum, (CHOOSE t \in Vocabulary : t[1] = enum /\ t[2] = s)[3])

\* The type attribute of an element, empty if it has none.
TypeOf(n) == IF "type" \in DOMAIN n.attrs THEN n.attrs["type"] ELSE <<>>

\* C12: an area document with a well-formed id and a type of the AreaType
\* vocabulary decodes to the Area whose mbid is the id attribute, name and
\* sort_name the texts of the name and sort-name elements, area_type the
\* variant of the type, and iso_3166 Some(code) when an iso-3166-1-code with
\* text is present and None otherwise.
C12_AreaDecoding ==
    (/\ call.op = "Area"
     /\ TopIdOk(call.doc)
     /\ InVocabulary("AreaType", TypeOf(TopElem(call.doc)))) =>
        /\ IsOk(res)
        /\ DOMAIN res.val = {"mbid", "name", "sort_name", "area_type", "iso_3166"}
        /\ res.val.mbid = Uuid_parse_str(TopElem(call.doc).attrs["id"]).val
        /\ res.val.name = ElemText(call.doc, <<"metadata", "area", "name">>)
        /\ res.val.sort_name = ElemText(call.doc, <<"metadata", "area", "sort-name">>)
        /\ res.val.area_type = VariantOf("AreaType", TypeOf(TopElem(call.doc)))
        /\ res.val.iso_3166
              = OptOf(call.doc, <<"area", "iso-3166-1-code-list", "iso-3166-1-code">>)

C12_Witness ==
    /\ call.op = "Area"
    /\ IsOk(res)
    /\ res.val.mbid = Uuid_parse_str(MkId("f", 0, 1)).val
    /\ res.val.name = S_Honolulu
    /\ res.val.sort_name = S_Japan
    /\ res.val.area_type = Variant("AreaType", "Country")
    /\ res.val.iso_3166 = Some(S_JP)

\* ------------------------------------------------------------------------
\* Properties of the partial dates
\* ------------------------------------------------------------------------

\* The optional date a date text stands for: None when it is no date.
DateOf(s) == IF IsOk(Date_from_str(s)) THEN Some(Date_from_str(s).val) ELSE None

\* The decoders that read a partial date, directly or through a ReleaseRef.
DateReaders == {"Artist", "Label", "Release", "ReleaseGroup", "read_vec"}

\* C13: no decoder that reads a partial date fails because of the date text:
\* an artist or label that decodes carries Some(date) for a well-formed
\* begin or end text and None for an absent, empty or malformed one, a
\* release that decodes carries the Date of its date text, and no artist,
\* label, release or list of ReleaseRef is rejected with a date parse error.
C13_DateLeniency ==
    /\ (call.op \in DateReaders /\ IsErr(res)) => res.err.kind # "ParseDateError"
    /\ (call.op = "Artist" /\ IsOk(res)) =>
          /\ res.val.begin_date
                = DateOf(ElemText(call.doc, <<"metadata", "artist", "life-span", "begin">>))
          /\ res.val.end_date
                = DateOf(ElemText(call.doc, <<"metadata", "artist", "life-span", "end">>))
    /\ (call.op = "Label" /\ IsOk(res)) =>
          /\ res.val.begin_date
                = DateOf(ElemText(call.doc, <<"metadata", "label", "life-span", "begin">>))
          /\ res.val.end_date
                = DateOf(ElemText(call.doc, <<"metadata", "label", "life-span", "end">>))
    /\ (call.op = "Release" /\ IsOk(res)) =>
          Some(res.val.date) = DateOf(ElemText(call.doc, <<"metadata", "release", "date">>))

\* ------------------------------------------------------------------------
\* Properties of the required identifiers
\* ------------------------------------------------------------------------

\* The id attributes of the elements called name (of all the elements when
\* name is "") at or below n, in document order.
RECURSIVE IdsOf(_, _)
IdsOf(n, name) ==
    (IF name \in {"", n.name} /\ "id" \in DOMAIN n.attrs THEN <<n.attrs["id"]>> ELSE <<>>)
    \o Flatten([k \in 1..Len(n.kids) |-> IdsOf(n.kids[k], name)])

\* The string of "...//mb:name/@id" (".//@id" when name is "") read at n: the
\* first of these, and the empty string when there is none.
IdText(n, name) == IF IdsOf(n, name) = <<>> THEN <<>> ELSE IdsOf(n, name)[1]

\* The element whose id attribute each entity decoder reads.
EntityElem ==
    [Area |-> "area", Artist |-> "artist", Label |-> "label", Recording |-> "recording",
     Release |-> "release", ReleaseGroup |-> "release-group"]

\* The result r fails when txt is no uuid, and carries the uuid of txt in
\* the record if there is a record.
IdRequired(txt, r) ==
    /\ IsErr(Uuid_parse_str(txt)) => IsErr(r)
    /\ IsOk(r) => r.val.mbid = Uuid_parse_str(txt).val

\* C14: every entity decoder and every Ref decoder fails, and produces no
\* record, when the id attribute its read_mbid expression addresses is
\* missing or is no well-formed uuid, and a record it produces has as mbid
\* the uuid parsed from the text of exactly that attribute: the id of the
\* entity's element, for a Ref the first id at or below the element it is
\* applied to, and for the area of an artist the id of the area element.
C14_RequiredId ==
    /\ call.op \in DOMAIN EntityElem =>
          IdRequired(IdText(call.doc, EntityElem[call.op]), res)
    /\ call.op = "Ref" => IdRequired(IdText(TopElem(call.doc), ""), res)
    /\ (call.op = "Artist" /\ IdxNamed(TopElem(call.doc), "area") # <<>>) =>
          /\ IsErr(Uuid_parse_str(IdText(TopElem(call.doc), "area"))) => IsErr(res)
          /\ IsOk(res) =>
                /\ res.val.area.tag = "Some"
                /\ res.val.area.val.mbid
                      = Uuid_parse_str(IdText(TopElem(call.doc), "area")).val

\* A Ref decoder applied to an element with no id attribute at or below it
\* has failed on the empty string.
C14_Witness ==
    /\ call.op = "Ref"
    /\ call.item = "ReleaseRef"
    /\ IdsOf(TopElem(call.doc), "") = <<>>
    /\ res = Err([kind |-> "UuidParseError", e |-> InvalidLength(0)])

\* ------------------------------------------------------------------------
\* Properties of the display strings
\* ------------------------------------------------------------------------

\* The display strings of each record: the field and the element it is read
\* from.
DisplayStrings ==
    [Area |-> {<<"name", <<"area", "name">>>>, <<"sort_name", <<"area", "sort-name">>>>},
     Artist |-> {<<"name", <<"artist", "name">>>>, <<"sort_name", <<"artist", "sort-name">>>>},
     Label |-> {<<"name", <<"label", "name">>>>, <<"sort_name", <<"label", "sort-name">>>>},
     Recording |-> {<<"title", <<"recording", "title">>>>},
     Release |-> {<<"title", <<"release", "title">>>>,
                  <<"country", <<"release", "country">>>>,
                  <<"language", <<"release", "text-representation", "language">>>>,
                  <<"script", <<"release", "text-representation", "script">>>>},
     ReleaseGroup |-> {<<"title", <<"release-group", "title">>>>},
     ArtistRef |-> {<<"name", <<"name-credit", "artist", "name">>>>,
                    <<"sort_name", <<"name-credit", "artist", "sort-name">>>>},
     LabelRef |-> {<<"name", <<"label-info", "label", "name">>>>,
                   <<"sort_name", <<"label-info", "label", "sort-name">>>>},
     RecordingRef |-> {<<"title", <<"recording", "title">>>>},
     ReleaseRef |-> {<<"title", <<"release", "title">>>>,
                     <<"country", <<"release", "country">>>>}]

\* The decoder that was called.
Decoder == IF call.op = "Ref" THEN call.item ELSE call.op

\* The documents that are complete but for display strings.
DisplayDocs ==
    Undisplayed(AreaElem("ok", S_City, "text")) \cup Undisplayed(ArtistElem(ArtistBase))
    \cup Undisplayed(LabelElem(LabelBase)) \cup Undisplayed(RecordingElem(RecordingBase))
    \cup Undisplayed(ReleaseElem(ReleaseBase))
    \cup Undisplayed(ReleaseGroupElem(ReleaseGroupBase))
    \cup UNION { Undisplayed(RefElem(item, "ok")) : item \in RefItems }

\* C15: read_string on an expression that matches no node is Ok(""), never
\* an error; a record that is decoded carries in each display string field
\* (name, sort_name, title, country, language, script) the text of its
\* element and the empty string when the element is missing, and a document
\* that lacks nothing but display strings is decoded successfully.
C15_EmptyString ==
    /\ (call.op = "read_string" /\ MatchedRefs(call.doc, call.expr) = <<>>) => res = Ok(<<>>)
    /\ (Decoder \in DOMAIN DisplayStrings /\ IsOk(res)) =>
          \A f \in DisplayStrings[Decoder] :
             res.val[f[1]] = ElemText(call.doc, <<"metadata">> \o f[2])
    /\ (Decoder \in DOMAIN DisplayStrings /\ call.doc \in DisplayDocs) => IsOk(res)

\* A release without title, country, language and script has been decoded.
C15_Witness ==
    /\ call.op = "Release"
    /\ IsOk(res)
    /\ PathsAt(call.doc, <<>>, <<"metadata", "release", "country">>) = <<>>
    /\ res.val.title = <<>>
    /\ res.val.country = <<>>
    /\ res.val.language = <<>>
    /\ res.val.script = <<>>
    /\ Len(res.val.mediums) = 1

\* ------------------------------------------------------------------------
\* Properties of the release group type
\* ------------------------------------------------------------------------

\* The texts of the secondary-type elements of a release group document, in
\* document order, and those of them that are not empty.
SecondaryElems(d) ==
    LET ps == PathsAt(d, <<>>, <<"metadata", "release-group", "secondary-type-list",
                                 "secondary-type">>)
    IN  [i \in 1..Len(ps) |-> NodeAt(d, ps[i]).text]
WithText(ts) == SelectSeq(ts, LAMBDA t : t # <<>>)

\* vs holds one variant for each of the texts ts, in some order.
OneVariantPer(vs, ts) ==
    /\ Len(vs) = Len(ts)
    /\ \E f \in [1..Len(ts) -> 1..Len(ts)] :
          /\ \A i, j \in 1..Len(ts) : f[i] = f[j] => i = j
          /\ \A i \in 1..Len(ts) :
                /\ InVocabulary("ReleaseGroupSecondaryType", ts[f[i]])
                /\ vs[i] = VariantOf("ReleaseGroupSecondaryType", ts[f[i]])

\* The result r of decoding the release group d, its secondary types being
\* those of the texts ts: the primary type is None without a primary-type
\* text and the variant of a text of the vocabulary, and any other text is a
\* failure; there is one secondary type for each of ts; a secondary-type
\* text outside the vocabulary is a failure, with InvalidData when the id,
\* the releases and the artists, which are read first, are well-formed.
TypeDecoded(d, r, ts) ==
    LET pt == ElemText(d, <<"metadata", "release-group", "primary-type">>)
        st == SecondaryElems(d)
    IN  /\ (pt # <<>> /\ ~InVocabulary("ReleaseGroupPrimaryType", pt)) => IsErr(r)
        /\ (\E i \in 1..Len(st) :
                st[i] # <<>> /\ ~InVocabulary("ReleaseGroupSecondaryType", st[i])) =>
              /\ IsErr(r)
              /\ (TopIdOk(d) /\ AllOk(GroupReleases(d) \o GroupArtists(d))) =>
                    r.err.kind = "InvalidData"
        /\ IsOk(r) =>
              /\ r.val.release_type.primary
                    = (IF pt = <<>> THEN None
                       ELSE Some(VariantOf("ReleaseGroupPrimaryType", pt)))
              /\ OneVariantPer(r.val.release_type.secondary, ts)

ServiceBase ==
    <<"h", "t", "t", "p", "s", ":", "/", "/", "m", "u", "s", "i", "c", "b", "r", "a", "i", "n", "z", ".", "o", "r", "g", "/", "w", "s", "/", "2", "/">>
CollectionPath ==
    [Area |-> <<"a", "r", "e", "a">>,
     Artist |-> <<"a", "r", "t", "i", "s", "t">>,
     Label |-> <<"l", "a", "b", "e", "l">>,
     Recording |-> <<"r", "e", "c", "o", "r", "d", "i", "n", "g">>,
     Release |-> <<"r", "e", "l", "e", "a", "s", "e">>,
     ReleaseGroup |-> <<"r", "e", "l", "e", "a", "s", "e", "-", "g", "r", "o", "u", "p">>]
W_aliases == <<"a", "l", "i", "a", "s", "e", "s">>
W_artists == <<"a", "r", "t", "i", "s", "t", "s">>
W_labels == <<"l", "a", "b", "e", "l", "s">>
W_recordings == <<"r", "e", "c", "o", "r", "d", "i", "n", "g", "s">>
W_annotation == <<"a", "n", "n", "o", "t", "a", "t", "i", "o", "n">>
W_isrcs == <<"i", "s", "r", "c", "s">>
W_releases == <<"r", "e", "l", "e", "a", "s", "e", "s">>
Inclusions ==
    [Area |-> <<>>,
     Artist |-> <<W_aliases>>,
     Label |-> <<W_aliases>>,
     Recording |-> <<W_artists, W_annotation, W_isrcs>>,
     Release |-> <<W_aliases, W_artists, W_labels, W_recordings>>,
     ReleaseGroup |-> <<W_annotation, W_artists, W_releases>>]

\* "?inc=" and the inclusions joined by "+", and nothing without inclusions.
RECURSIVE JoinPlus(_)
JoinPlus(ws) == IF Len(ws) = 1 THEN ws[1] ELSE ws[1] \o <<"+">> \o JoinPlus(Tail(ws))
IncQuery(ws) == IF ws = <<>> THEN <<>> ELSE <<"?", "i", "n", "c", "=">> \o JoinPlus(ws)

\* The 36 characters of the hyphenated form of the 32 digits u.
Dashed(u) ==
    [i \in 1..36 |->
        IF i \in UuidHyphens THEN "-"
        ELSE u[i - Cardinality({h \in UuidHyphens : h < i})]]

LabelAliases(d) ==
    LET ps == PathsAt(d, <<>>, <<"metadata", "label", "alias-list", "alias">>)
    IN  WithText([i \in 1..Len(ps) |-> NodeAt(d, ps[i]).text])

\* The variants of the secondary-type texts of a release group document, in
\* document order.
SecondaryVariants(d) ==
    LET ts == WithText(SecondaryElems(d))
    IN  [i \in 1..Len(ts) |-> VariantOf("ReleaseGroupSecondaryType", ts[i])]

\* C18: the list fields read with nodeset.iter() are in document order: the
\* artists of a release and of a recording are the decodings of their
\* name-credit elements in document order, the aliases of a label are the
\* alias texts in document order, and the secondary types of a release
\* group are those of its secondary-type elements in document order.
C18_DocumentOrder ==
    /\ (call.op = "Release" /\ IsOk(res)) =>
          res.val.artists
             = Vals(DecodeEach(call.doc, ReleaseArtistRefs(call.doc), "ArtistRef"))
    /\ (call.op = "Recording" /\ IsOk(res)) =>
          res.val.artists
             = Vals(DecodeEach(call.doc,
                       ElemRefs(call.doc, <<"metadata", "recording", "artist-credit",
                                            "name-credit">>), "ArtistRef"))
    /\ (call.op = "Label" /\ IsOk(res)) => res.val.aliases = LabelAliases(call.doc)
    /\ (call.op = "ReleaseGroup" /\ IsOk(res)) =>
          res.val.release_type.secondary = SecondaryVariants(call.doc)

\* ------------------------------------------------------------------------
\* Properties of decoding twice
\* ------------------------------------------------------------------------

\* C19: a decoder called a second time on a reader of the same document
\* gives the result of the first call: the same record, field by field and
\* list by list in the same order, or the same error.
C19_Deterministic == call.op = "again" => res = call.first.res

\* ------------------------------------------------------------------------
\* Properties of the stages of get_by_mbid
\* ------------------------------------------------------------------------

\* C20: when the response body is not well-formed XML, XPathStrReader::new
\* fails with the error of the XML parser, get_by_mbid returns it, and no
\* decoder and no path query has run; the decoder runs only on a reader
\* that was constructed from the response body.
C20_ParseBeforeDecode ==
    call.op = "get_by_mbid" =>
        /\ (call.body # None /\ ~call.body.val.wf) =>
              /\ XPathStrReader_new(call.body.val)
                    = Err([kind |-> "XmlParserError", e |-> call.body.val.errors[1]])
              /\ call.pc \in {"new", "done"}
              /\ call.reader = None
              /\ ~call.decoded
              /\ call.pc = "done" =>
                    res = Err([kind |-> "ParseError",
                               e |-> [kind |-> "XmlParserError",
                                      e |-> call.body.val.errors[1]]])
        /\ (call.pc = "from_xml" \/ call.decoded) =>
              /\ call.body # None
              /\ call.body.val.wf
              /\ call.reader = Some(XPathStrReader(call.body.val.doc))

\* get_by_mbid has returned the error of the parser for a body that is not
\* well-formed.
C20_Witness ==
    /\ call.op = "get_by_mbid"
    /\ call.pc = "done"
    /\ call.body # None
    /\ ~call.body.val.wf
    /\ call.body.val.errors = <<"MismatchedTag", "UnexpectedEof">>
    /\ res = Err([kind |-> "ParseError",
                  e |-> [kind |-> "XmlParserError", e |-> "MismatchedTag"]])

\* ------------------------------------------------------------------------
\* Query compile failure
\* ------------------------------------------------------------------------

FailsToCompile(e) == e.fn \in {"malformed", "blank"}

\* C21 (as stated): when a path expression fails to compile, evaluate returns
\* an error of the InternalError kind and never a value.
C21_CompileFailureInternal ==
    (call.op = "evaluate" /\ FailsToCompile(call.expr))
        => (IsErr(res) /\ res.err.kind = "InternalError")

\* C21 (amended): when a path expression fails to compile, evaluate never
\* returns a value; it returns an error of the XpathParserError kind for an
\* expression with a syntax error and of the InternalError kind for one that
\* builds to no XPath, both distinct from the InvalidData kind.
C21_CompileFailureKinds ==
    (call.op = "evaluate" /\ FailsToCompile(call.expr))
        => /\ IsErr(res)
           /\ res.err.kind # "InvalidData"
           /\ call.expr.fn = "malformed" => res.err.kind = "XpathParserError"
           /\ call.expr.fn = "blank" => res.err.kind = "InternalError"

C21_Witness ==
    /\ call.op = "evaluate"
    /\ call.expr = Malformed
    /\ IsErr(res)
    /\ res.err.kind = "XpathParserError"

\* ------------------------------------------------------------------------
\* Absence of aborts
\* ------------------------------------------------------------------------

\* C22: reader construction, evaluate (of either reader) and the conversion of
\* the parser's error list terminate with Ok or a structured Err, never with
\* an abort.
C22_NoPanic ==
    call.op \in {"evaluate", "XpathReader::evaluate", "ParseError::from",
                 "XPathStrReader::new"}
        => (IsOk(res) \/ IsErr(res))

\* ------------------------------------------------------------------------
\* Client::get_by_mbid, step order
\* ------------------------------------------------------------------------

StepOrder == <<"get_url", "send", "read", "parse", "decode">>

IsPrefix(s, t) == Len(s) <= Len(t) /\ s = SubSeq(t, 1, Len(s))

\* The step at which a finished call failed, by the error it returned.
FailedStep(r) ==
    CASE r.err.kind = "HyperParserError" -> "get_url"
      [] r.err.kind = "HttpError" -> "send"
      [] r.err.kind = "IoError" -> "read"
      [] r.err.kind = "ParseError" /\ r.err.e.kind = "XmlParserError" -> "parse"
      [] OTHER -> "decode"

\* C23: get_by_mbid builds the URL from Res::get_url(mbid), issues exactly one
\* GET with the configured User-Agent, reads the body, parses and decodes, in
\* that order; a failure ends the call at the failing step, and no call issues
\* more than one request.
C23_StepOrder ==
    call.op = "get_by_mbid" =>
        /\ IsPrefix(call.steps, StepOrder)
        /\ Len(call.requests) <= 1
        /\ \A i \in 1..Len(call.requests) :
              call.requests[i] = [method |-> "GET",
                                  url |-> get_url(call.Res, call.mbid),
                                  user_agent |-> call.config.user_agent]
        /\ Len(call.requests) = 1 <=> Len(call.steps) >= 2
        /\ call.pc = "done" =>
              /\ IsOk(res) \/ IsErr(res)
              /\ IsOk(res) => call.steps = StepOrder
              /\ IsErr(res) => call.steps[Len(call.steps)] = FailedStep(res)

C23_Witness ==
    /\ call.op = "get_by_mbid"
    /\ call.pc = "done"
    /\ res = Err([kind |-> "IoError"])
    /\ call.steps = <<"get_url", "send", "read">>
    /\ Len(call.requests) = 1

\* ------------------------------------------------------------------------
\* Search results
\* ------------------------------------------------------------------------

\* The release groups of a search response, in document order.
GroupsOf(d) == d.kids[1].kids[1].kids

ScoreOf(g) == ParseUInt(g.attrs["ext:score"], U8Max).val

\* C24: every SearchEntry returned by a search carries a score from 0 to 100
\* that is the score of that entry's own search result, not a property of
\* the result list.
C24_EntryScore ==
    (call.op = "search" /\ IsOk(res)) =>
        \A i \in 1..Len(res.val) :
            /\ res.val[i].score \in 0..100
            /\ res.val[i].score = ScoreOf(GroupsOf(call.response.val.doc)[i])

\* ------------------------------------------------------------------------
\* Search builder
\* ------------------------------------------------------------------------

SearchFieldNames ==
    [ArtistName |-> <<"a", "r", "t", "i", "s", "t", "n", "a", "m", "e">>,
     Tag |-> <<"t", "a", "g">>,
     ReleaseGroupId |-> <<"r", "g", "i", "d">>]

ValueString(f) == IF f.type = "ReleaseGroupId" THEN Dashed(f.value) ELSE f.value

PercentOf(c) ==
    CASE c = " " -> <<"%", "2", "0">>
      [] c = "#" -> <<"%", "2", "3">>
      [] c = "?" -> <<"%", "3", "F">>
      [] OTHER -> <<c>>

RECURSIVE PercentEncoded(_)
PercentEncoded(v) ==
    IF v = <<>> THEN <<>> ELSE PercentOf(Head(v)) \o PercentEncoded(Tail(v))

TermOf(f) == SearchFieldNames[f.type] \o <<":">> \o PercentEncoded(ValueString(f))

RECURSIVE JoinAnd(_)
JoinAnd(fs) ==
    IF fs = <<>> THEN <<>>
    ELSE TermOf(Head(fs))
         \o (IF Len(fs) = 1 THEN <<>> ELSE <<"%", "2", "0", "A", "N", "D", "%", "2", "0">> \o JoinAnd(Tail(fs)))

\* C30: after any sequence of add calls, params holds one (field name, field
\* value string) pair per call in call order, and build_url yields base_url,
\* "?query=" and the terms name:percent-encoded-value in that order joined by
\* "%20AND%20" (an empty query when no add was made).
C30_Accumulation ==
    call.op \in {"builder", "build_url", "search"} =>
        /\ Len(call.builder.params) = Len(call.added)
        /\ \A i \in 1..Len(call.added) :
              call.builder.params[i] =
                  <<SearchFieldNames[call.added[i].type], ValueString(call.added[i])>>
        /\ call.op = "build_url" =>
              res = Ok(ServiceBase \o CollectionPath.ReleaseGroup
                       \o <<"/", "?", "q", "u", "e", "r", "y", "=">> \o JoinAnd(call.added))

C30_Witness ==
    /\ call.op = "build_url"
    /\ Len(call.added) = 2
    /\ call.added[1].type = call.added[2].type
    /\ call.added[1].value = <<"a", " ", "b">>
    /\ call.added[2].value = <<"?", "%">>
    /\ IsOk(res)

\* ------------------------------------------------------------------------
\* Fields of element-rooted decoders
\* ------------------------------------------------------------------------

HasKid(n, name) == IdxNamed(n, name) # <<>>

\* The text of n's own child of that name, empty when it has none.
OwnText(n, name) == IF HasKid(n, name) THEN KidText(n, name) ELSE <<>>

\* A numeral without its leading zeros.
RECURSIVE Canon(_)
Canon(text) == IF Len(text) > 1 /\ Head(text) = "0" THEN Canon(Tail(text)) ELSE text

MillisOf(text) == [millis |-> Canon(text)]

\* C25: a decoded ReleaseTrack has the title and length of the track
\* element's own children (a track without its own length does not decode,
\* one without its own title has the empty title) and recording.title and
\* recording.length of the embedded recording; a decoded ReleaseMedium has
\* the medium's own position.
C25_OwnFields ==
    /\ call.op = "ReleaseTrack" =>
          LET track == NodeAt(call.doc, call.node.path)
              rec == track.kids[IdxNamed(track, "recording")[1]]
          IN  /\ ~HasKid(track, "length") => IsErr(res)
              /\ IsOk(res) =>
                    /\ res.val.title = OwnText(track, "title")
                    /\ res.val.length = MillisOf(OwnText(track, "length"))
                    /\ res.val.recording.title = OwnText(rec, "title")
                    /\ res.val.recording.length = MillisOf(OwnText(rec, "length"))
    /\ call.op = "ReleaseMedium" =>
          LET medium == NodeAt(call.doc, call.node.path)
          IN  /\ ~HasKid(medium, "position") => IsErr(res)
              /\ IsOk(res) =>
                    res.val.position = ParseUInt(OwnText(medium, "position"), U16Max).val

\* ------------------------------------------------------------------------
\* Sub-tree isolation
\* ------------------------------------------------------------------------

\* The element at a node, alone in a document of its own.
Alone(d, ref) == Document(NodeAt(d, ref.path))

LabelInfoRefs(d) ==
    document_order(EvalSteps(d, {ElemRef(<<>>)},
        <<Dos, Child("release"), Child("label-info-list"), Child("label-info")>>))

\* C26: the i-th decoded item of a list is what its decoder yields on the
\* i-th matched node's sub-tree alone: nothing is read from a sibling or an
\* ancestor of the node.
C26_Isolation ==
    /\ (call.op = "ReleaseMedium" /\ IsOk(res)) =>
          /\ Len(res.val.tracks) = Len(TrackRefs(call.doc))
          /\ \A i \in 1..Len(res.val.tracks) :
                Ok(res.val.tracks[i]) =
                    ReleaseTrack_from_xml(
                        [doc |-> Alone(call.doc, TrackRefs(call.doc)[i]),
                         node |-> ElemRef(<<1>>)])
    /\ (call.op = "Release::labels" /\ IsOk(res)) =>
          /\ Len(res.val) = Len(LabelInfoRefs(call.doc))
          /\ \A i \in 1..Len(res.val) :
                Ok(res.val[i]) =
                    LabelRef_from_xml(
                        [doc |-> Alone(call.doc, LabelInfoRefs(call.doc)[i]),
                         node |-> ElemRef(<<1>>)])

C26_Witness ==
    /\ call.op = "ReleaseMedium"
    /\ IsOk(res)
    /\ Len(res.val.tracks) = 2
    /\ res.val.tracks[1].title # res.val.tracks[2].title
    /\ res.val.tracks[1].recording.length # res.val.tracks[2].recording.length

\* ------------------------------------------------------------------------
\* Duration fields
\* ------------------------------------------------------------------------

\* A text that is a non-negative integer.
IsNumeral(text) ==
    /\ text # <<>>
    /\ \A i \in 1..Len(text) : text[i] \in Digits

\* The length text of the decoded element and the decoded length.
LengthText == OwnText(TopElem(call.doc), "length")

LengthDecoded == IF call.op = "Recording" THEN res.val.duration ELSE res.val.length

\* C27: Recording, RecordingRef and ReleaseTrack decoding fails when the
\* length text is absent, empty or not a non-negative integer, and otherwise
\* yields a duration of exactly that many milliseconds.
C27_Duration ==
    call.op \in {"Recording", "RecordingRef", "ReleaseTrack"} =>
        /\ ~IsNumeral(LengthText) => IsErr(res)
        /\ IsOk(res) => LengthDecoded = MillisOf(LengthText)

\* ------------------------------------------------------------------------
\* Artist.area
\* ------------------------------------------------------------------------

\* C28: an artist element without an area child decodes with area = None
\* when its other fields decode, and a decoded artist has area = Some(ref)
\* exactly when the element has an area child, ref being decoded from it.
C28_OptionalArea ==
    call.op = "Artist" =>
        LET artist == TopElem(call.doc)
        IN  /\ (/\ ~HasKid(artist, "area")
                /\ TopIdOk(call.doc)
                /\ InVocabulary("ArtistType", TypeOf(artist))) =>
                   (IsOk(res) /\ res.val.area = None)
            /\ IsOk(res) =>
                   /\ res.val.area # None <=> HasKid(artist, "area")
                   /\ HasKid(artist, "area") =>
                         res.val.area.val.name
                             = KidText(artist.kids[IdxNamed(artist, "area")[1]], "name")

\* ------------------------------------------------------------------------
\* Missing type attribute
\* ------------------------------------------------------------------------

NoType(n) == "type" \notin DOMAIN n.attrs

TypedEntities == {"Area", "Artist", "Label"}

\* The area child of an artist carries a well-formed id.
ArtistAreaOk(artist) ==
    /\ HasKid(artist, "area")
    /\ "id" \in DOMAIN artist.kids[IdxNamed(artist, "area")[1]].attrs
    /\ IsOk(Uuid_parse_str(artist.kids[IdxNamed(artist, "area")[1]].attrs["id"]))

\* Everything the decoder reads before the type attribute decodes.
ReadBeforeTypeOk ==
    /\ TopIdOk(call.doc)
    /\ call.op = "Artist" => ArtistAreaOk(TopElem(call.doc))

PrimaryMissing(d) == ElemText(d, <<"metadata", "release-group", "primary-type">>) = <<>>

\* C29 (as stated): Area, Artist and Label decoding return an InvalidData
\* error whenever the entity element has no type attribute; a release group
\* without a primary type decodes with primary = None.
C29_MissingType ==
    /\ (call.op \in TypedEntities /\ NoType(TopElem(call.doc))) =>
          (IsErr(res) /\ res.err.kind = "InvalidData")
    /\ (call.op = "ReleaseGroup" /\ PrimaryMissing(call.doc) /\ IsOk(res)) =>
          res.val.release_type.primary = None

\* C29 (amended): Area, Artist and Label decoding return an error whenever
\* the entity element has no type attribute, and it is the InvalidData error
\* when everything read before the type decodes; a release group without a
\* primary type decodes with primary = None, and a missing primary type never
\* makes its decoding fail.
C29_MissingTypeFails ==
    /\ (call.op \in TypedEntities /\ NoType(TopElem(call.doc))) =>
          /\ IsErr(res)
          /\ ReadBeforeTypeOk =>
                (res.err.kind = "InvalidData" /\ res.err.text = <<>>)
    /\ (call.op = "ReleaseGroup" /\ PrimaryMissing(call.doc)) =>
          /\ IsOk(res) => res.val.release_type.primary = None
          /\ TopIdOk(call.doc) => IsOk(res)

C29_Witness ==
    /\ call.op = "Label"
    /\ NoType(TopElem(call.doc))
    /\ TopIdOk(call.doc)
    /\ IsErr(res)
    /\ res.err.kind = "InvalidData"

====
